---- MODULE Spec2Model ----
(***************************************************************************)
(* Model of the timing recorder of project-timings:                        *)
(*   src/timings/src/timings_recorder.rs   TimingsRecorder                 *)
(*   src/timings/src/totals_cache.rs       DailyTotals, Totals, TotalsCache*)
(*   src/timings/src/repository/*.rs       the SQLite persistence          *)
(* Instants are milliseconds since the Unix epoch (the resolution of the   *)
(* persisted columns); durations are milliseconds.  Strings are sequences  *)
(* of one-character strings so that trim() is computed, not assumed.       *)
(* Option<T> is a sequence of length 0 (None) or 1 (Some).                 *)
(***************************************************************************)
EXTENDS Integers, Sequences, FiniteSets, TLC

\* ------------------------------------------------------------------ bounds
\* Number of recorder operations in one run.
MaxOps == 4

\* The instants handed in as `now`.  They realise: a sub-second span (0..500),
\* spans below and at a 3 s minimum (500..3000, 0..3000), keep-alive gaps of
\* 57.5 s (3000..60500), exactly 60 s (500..60500), 60.5 s (0..60500), exactly
\* 61 s (3000..64000) and more, and a tail (64000..91000) after a late keep-alive.
Times == {0, 500, 3000, 60500, 64000, 91000}

\* Arguments given to TimingsRecorder::new (a negative one is clamped).
MinimumArgs == {0 - 1000, 0, 3000}

\* (client, project) arguments given to start_timing, untrimmed.
StartArgs ==
    { << <<" ", "A">>, <<"P", " ">> >>,
      << <<"B">>, <<"P">> >>,
      << <<" ">>, <<"P">> >>,
      << <<"A">>, <<>> >> }

\* Which persistence call of an operation fails, if any.
Failures == {"none", "insert", "read"}

\* (client, project) keys asked of get_totals.
Pairs == { << <<"A">>, <<"P">> >>, << <<"B">>, <<"P">> >> }

\* Number of summary operations in one run of SpecSummary.
MaxSummaryOps == 4

\* Days asked of get_summary, and the texts the application stores for a day
\* (storing the empty text deletes the row).
SummaryDays == {0, 1}
SummaryTexts == { <<>>, <<"a">>, <<"b">> }

\* Number of TotalsCache operations in one run of SpecTotals.
MaxTotalsOps == 3

\* Local days (days since the epoch, day 0 is a Thursday) that may hold a bucket
\* when a run of SpecTotals begins: around the eight-week boundary of the first
\* days of the run, and the week of the run's beginning and the week before it.
BucketDays == ((0 - 58) .. (0 - 52)) \cup ((0 - 11) .. 0)

\* The durations found in those buckets.
BucketMs == <<1000, 60000>>

\* Instants of SpecTotals, in UTC: day 0 00:00, day 0 22:30 (local day 1), day 3
\* 12:00 (a Sunday), day 4 21:59:59.999 (the last local millisecond of Monday),
\* day 4 22:00:01 (local Tuesday), day 7 12:00 (Thursday of the next week).
TotalsTimes ==
    { 0, 81000000, 3 * 86400000 + 43200000, 4 * 86400000 + 79199999,
      4 * 86400000 + 79201000, 7 * 86400000 + 43200000 }

\* The durations of the timings added in SpecTotals.
TimingDurations == {1500}

\* Number of rows the store holds when a run of SpecColdFill fills the cache.
MaxColdFillRows == 3

\* The rows of SpecColdFill: (day, millisecond of the day) of the start, in UTC,
\* around the beginning of the eight weeks before day 0 and on day 0 itself.
ColdFillStarts ==
    { <<0 - 57, 72000000>>, <<0 - 57, 82800000>>, <<0 - 56, 3600000>>,
      <<0 - 56, 72000000>>, <<0 - 55, 3600000>>, <<0 - 28, 3600000>>,
      <<0, 3600000>> }

\* The instants of get_totals in SpecColdFill: day 0 12:00 and 23:00 UTC.
ColdFillTimes == {43200000, 82800000}

\* Number of calls made on the TimingsRecorderShared in one run of SpecShared.
MaxSharedOps == 4

\* Number of run_debounced_spawn calls in one run of SpecDebounce.
MaxDebounceCalls == 3

\* The ids, the delays (ms) and the instants (ms) of SpecDebounce.
DebounceIds == {"a", "b"}

DebounceDelays == {100, 200}

DebounceTimes == {0, 100, 200, 300, 400}

\* --------------------------------------------------------------- constants
KeepAliveSecs == 60
MsPerSec == 1000
MsPerDay == 24 * 60 * 60 * MsPerSec
EightWeeksDays == 8 * 7
\* Offset of chrono::Local from UTC, in milliseconds.
LocalOffsetMs == 2 * 60 * 60 * MsPerSec

None == <<>>
Some(x) == <<x>>
IsSome(o) == o # <<>>
Unwrap(o) == o[1]

\* chrono Duration::num_seconds: whole seconds, truncated toward zero.
NumSeconds(d) == IF d >= 0 THEN d \div MsPerSec ELSE 0 - ((0 - d) \div MsPerSec)

\* str::trim on a sequence of characters.
IsSpace(ch) == ch = " "
RECURSIVE TrimStart(_)
TrimStart(s) == IF s # <<>> /\ IsSpace(Head(s)) THEN TrimStart(Tail(s)) ELSE s
RECURSIVE TrimEnd(_)
TrimEnd(s) ==
    IF s # <<>> /\ IsSpace(s[Len(s)]) THEN TrimEnd(SubSeq(s, 1, Len(s) - 1)) ELSE s
Trim(s) == TrimEnd(TrimStart(s))

Timing(c, p, s, e) == [client |-> c, project |-> p, start |-> s, end |-> e]
CurrentTiming(c, p, s) == [client |-> c, project |-> p, start |-> s]

\* ---------------------------------------------------------- DailyTotals
\* Local calendar day (days since the epoch) of an instant.
LocalDate(t) == (t + LocalOffsetMs) \div MsPerDay

\* DailyTotals::insert_timing: the whole duration goes to the start's local day.
InsertTiming(daily, start, end) ==
    LET date == LocalDate(start)
        duration == end - start
        old == IF date \in DOMAIN daily THEN daily[date] ELSE 0
    IN  [d \in (DOMAIN daily) \cup {date} |->
            IF d = date THEN old + duration ELSE daily[d]]

\* TotalsCache::add_timing that creates the entry of a pair that has none.
CacheAddTiming_Always(cache, timing) ==
    LET key == <<timing.client, timing.project>>
        daily == IF key \in DOMAIN cache THEN cache[key] ELSE <<>>
    IN  [k \in (DOMAIN cache) \cup {key} |->
            IF k = key THEN InsertTiming(daily, timing.start, timing.end)
            ELSE cache[k]]

\* TotalsCache::add_timing: only a pair that already has an entry is updated.
CacheAddTiming(cache, timing) ==
    LET key == <<timing.client, timing.project>>
    IN  IF key \in DOMAIN cache
        THEN [cache EXCEPT ![key] = InsertTiming(cache[key], timing.start, timing.end)]
        ELSE cache

\* The sum of the buckets of the days from..to (the while loops of to_totals;
\* a day without a bucket adds nothing, so only the days present are visited).
RECURSIVE SumBuckets(_, _)
SumBuckets(daily, days) ==
    IF days = {} THEN 0
    ELSE LET d == CHOOSE x \in days : TRUE
         IN  daily[d] + SumBuckets(daily, days \ {d})

SumDays(daily, from, to) ==
    SumBuckets(daily, {d \in DOMAIN daily : from <= d /\ d <= to})

\* Weekday::num_days_from_monday of a day number (day 0 is a Thursday).
DaysFromMonday(day) == (day + 3) % 7

\* to_totals whose eight weeks begin one day late.
ToTotals_EightWeeksLate(daily, now) ==
    LET today == LocalDate(now)
        this_week_start == today - DaysFromMonday(today)
        last_week_start == this_week_start - 7
        last_week_end == this_week_start - 1
        eight_weeks_start == today - 8 * 7 + 1
    IN  [ today       |-> IF today \in DOMAIN daily THEN daily[today] ELSE 0,
          this_week   |-> SumDays(daily, this_week_start, today),
          last_week   |-> SumDays(daily, last_week_start, last_week_end),
          eight_weeks |-> SumDays(daily, eight_weeks_start, today) ]

\* DailyTotals::to_totals
ToTotals(daily, now) ==
    LET today == LocalDate(now)
        this_week_start == today - DaysFromMonday(today)
        last_week_start == this_week_start - 7
        last_week_end == this_week_start - 1
        eight_weeks_start == today - 8 * 7
    IN  [ today       |-> IF today \in DOMAIN daily THEN daily[today] ELSE 0,
          this_week   |-> SumDays(daily, this_week_start, today),
          last_week   |-> SumDays(daily, last_week_start, last_week_end),
          eight_weeks |-> SumDays(daily, eight_weeks_start, today) ]

\* with_current_timing that adds the elapsed time to today only.
WithCurrentTiming_TodayOnly(totals, start, now) ==
    LET duration == now - start
    IN  [ today       |-> totals.today + duration,
          this_week   |-> totals.this_week,
          last_week   |-> totals.last_week,
          eight_weeks |-> totals.eight_weeks ]

\* Totals::with_current_timing
WithCurrentTiming(totals, start, now) ==
    LET duration == now - start
    IN  [ today       |-> totals.today + duration,
          this_week   |-> totals.this_week + duration,
          last_week   |-> totals.last_week,
          eight_weeks |-> totals.eight_weeks + duration ]

HasCachedTotals(cache, client, project) == <<client, project>> \in DOMAIN cache

\* ------------------------------------------------------------ persistence
\* The timing table is a set of rows, at most one per (client, project, start).
SameKey(a, b) == a.client = b.client /\ a.project = b.project /\ a.start = b.start

\* An INSERT without the ON CONFLICT clause on a table without the unique key.
Upsert_InsertOnly(db, timing) == db \cup {timing}

\* One INSERT ... ON CONFLICT (projectId, start) DO UPDATE SET end.
Upsert(db, timing) == {row \in db : ~SameKey(row, timing)} \cup {timing}

\* insert_timings: the rows are upserted in order inside one transaction.
RECURSIVE InsertTimings(_, _)
InsertTimings(db, timings) ==
    IF timings = <<>> THEN db
    ELSE InsertTimings(Upsert(db, Head(timings)), Tail(timings))

RECURSIVE SumDurations(_)
SumDurations(rows) ==
    IF rows = {} THEN 0
    ELSE LET row == CHOOSE r \in rows : TRUE
         IN  (row.end - row.start) + SumDurations(rows \ {row})

\* Millisecond sums s (multiples of 500 up to 600000) for which the f64
\* computation ((s / 3600000.0) * 3600.0 * 1000.0) as i64 yields s - 1.
TruncatedMs ==
    { 57500, 59500, 61500, 114500, 115000, 118500, 119000, 122500, 123000,
      126500, 225500, 226500, 229000, 230000, 233500, 237000, 238000, 241500,
      245000, 246000, 248500, 249500, 253000, 451000, 453000, 455500, 458000,
      460000, 462500, 464500, 467000, 469500, 471500, 474000, 476000, 478500,
      483000, 485500, 487500, 490000, 492000, 494500, 497000, 499000, 501500,
      503500, 506000, 508500, 510500 }

\* SUM(end - start) / 3600000 as REAL hours, then back to milliseconds.
HoursToDuration(sum_ms) == IF sum_ms \in TruncatedMs THEN sum_ms - 1 ELSE sum_ms

\* start >= to - days, computed without leaving 32-bit integers.
NotBefore(start, to, days) ==
    LET back == to - start
    IN  \/ back \div MsPerDay < days
        \/ back \div MsPerDay = days /\ back % MsPerDay = 0

\* get_timings_daily_totals for one client and project, as DailyTotals::from_database
\* installs it: the rows starting in [to - days_back, to], summed per local day of
\* the start.
FromDatabase(db, client, project, to, days_back) ==
    LET rows == {row \in db : /\ row.client = client
                              /\ row.project = project
                              /\ NotBefore(row.start, to, days_back)
                              /\ row.start <= to}
        days == {LocalDate(row.start) : row \in rows}
    IN  [d \in days |->
            HoursToDuration(SumDurations({row \in rows : LocalDate(row.start) = d}))]

\* ------------------------------------------------------ TimingsRecorder
\* The recorder `self` is a record of its fields; `notified` lists the
\* running_changed invocations, `observed` what is_running() is at each of them
\* and `cache_adds` the timings passed to TotalsCache::add_timing by the
\* operation in progress.

\* TimingsRecorder::new
NewRecorder(minimum_timing) ==
    [ unwritten_timings |-> <<>>,
      current_timing    |-> None,
      last_keep_alive   |-> None,
      minimum_timing    |-> IF minimum_timing < 0 THEN 0 ELSE minimum_timing,
      totals_cache      |-> <<>>,
      running_changed   |-> FALSE,
      notified          |-> <<>>,
      observed          |-> <<>>,
      cache_adds        |-> <<>> ]

\* add_timing without the minimum-duration test.
AddTiming_NoMinimum(self, timing) ==
    LET duration == timing.end - timing.start
    IN  IF NumSeconds(duration) > 0
        THEN [self EXCEPT
                !.totals_cache = CacheAddTiming(self.totals_cache, timing),
                !.cache_adds = Append(self.cache_adds, timing),
                !.unwritten_timings = Append(self.unwritten_timings, timing)]
        ELSE self

\* TimingsRecorder::add_timing
AddTiming(self, timing) ==
    LET duration == timing.end - timing.start
    IN  IF duration < self.minimum_timing THEN self
        ELSE IF NumSeconds(duration) > 0
        THEN [self EXCEPT
                !.totals_cache = CacheAddTiming(self.totals_cache, timing),
                !.cache_adds = Append(self.cache_adds, timing),
                !.unwritten_timings = Append(self.unwritten_timings, timing)]
        ELSE self

\* finalize_current_timing that takes the current timing and forgets it.
FinalizeCurrentTiming_Drop(self, now) == [self EXCEPT !.current_timing = None]

\* finalize_current_timing that finalizes a default timing when none is open.
FinalizeCurrentTiming_Default(self, now) ==
    LET current == IF IsSome(self.current_timing) THEN Unwrap(self.current_timing)
                   ELSE CurrentTiming(<<>>, <<>>, 0)
    IN  AddTiming([self EXCEPT !.current_timing = None],
                  Timing(current.client, current.project, current.start, now))

\* TimingsRecorder::finalize_current_timing
FinalizeCurrentTiming(self, now) ==
    IF IsSome(self.current_timing)
    THEN LET current == Unwrap(self.current_timing)
         IN  AddTiming([self EXCEPT !.current_timing = None],
                       Timing(current.client, current.project, current.start, now))
    ELSE self

\* The split condition with the gap compared in milliseconds instead of seconds.
KeepAliveExpired_Millis(self, now) ==
    /\ IsSome(self.current_timing)
    /\ IsSome(self.last_keep_alive)
    /\ now - Unwrap(self.last_keep_alive) > KeepAliveSecs

\* The condition of keep_alive_timing's split.
KeepAliveExpired(self, now) ==
    /\ IsSome(self.current_timing)
    /\ IsSome(self.last_keep_alive)
    /\ NumSeconds(now - Unwrap(self.last_keep_alive)) > KeepAliveSecs

\* keep_alive_timing whose split ends the old piece at `now`.
KeepAliveTiming_EndAtNow(self, now) ==
    LET split ==
            IF KeepAliveExpired(self, now)
            THEN LET current == Unwrap(self.current_timing)
                     timing == Timing(current.client, current.project,
                                      current.start, now)
                 IN  AddTiming(
                        [self EXCEPT !.current_timing =
                            Some(CurrentTiming(current.client, current.project, now))],
                        timing)
            ELSE self
    IN  [split EXCEPT !.last_keep_alive = Some(now)]

\* keep_alive_timing whose gap split leaves the start of the session in place.
KeepAliveTiming_KeepStart(self, now) ==
    LET split ==
            IF KeepAliveExpired(self, now)
            THEN LET current == Unwrap(self.current_timing)
                     timing == Timing(current.client, current.project,
                                      current.start, Unwrap(self.last_keep_alive))
                 IN  AddTiming(self, timing)
            ELSE self
    IN  [split EXCEPT !.last_keep_alive = Some(now)]

\* keep_alive_timing that records the instant only while a session is open.
KeepAliveTiming_OnlyRecording(self, now) ==
    LET split ==
            IF KeepAliveExpired(self, now)
            THEN LET current == Unwrap(self.current_timing)
                     timing == Timing(current.client, current.project,
                                      current.start, Unwrap(self.last_keep_alive))
                 IN  AddTiming(
                        [self EXCEPT !.current_timing =
                            Some(CurrentTiming(current.client, current.project, now))],
                        timing)
            ELSE self
    IN  IF IsSome(self.current_timing)
        THEN [split EXCEPT !.last_keep_alive = Some(now)]
        ELSE split

\* TimingsRecorder::keep_alive_timing
KeepAliveTiming(self, now) ==
    LET split ==
            IF KeepAliveExpired(self, now)
            THEN LET current == Unwrap(self.current_timing)
                     timing == Timing(current.client, current.project,
                                      current.start, Unwrap(self.last_keep_alive))
                 IN  AddTiming(
                        [self EXCEPT !.current_timing =
                            Some(CurrentTiming(current.client, current.project, now))],
                        timing)
            ELSE self
    IN  [split EXCEPT !.last_keep_alive = Some(now)]

\* The running_changed callback, when one is registered.
Notify(self, running) ==
    IF self.running_changed
    THEN [self EXCEPT !.notified = Append(self.notified, running),
                      !.observed = Append(self.observed, IsSome(self.current_timing))]
    ELSE self

\* stop_timing that does not invoke the callback.
StopTiming_Silent(self, now) ==
    FinalizeCurrentTiming(KeepAliveTiming(self, now), now)

\* stop_timing that invokes the callback only when it closed a session.
StopTiming_OnlyWhenRunning(self, now) ==
    IF IsSome(self.current_timing)
    THEN Notify(FinalizeCurrentTiming(KeepAliveTiming(self, now), now), FALSE)
    ELSE FinalizeCurrentTiming(KeepAliveTiming(self, now), now)

\* TimingsRecorder::stop_timing
StopTiming(self, now) ==
    Notify(FinalizeCurrentTiming(KeepAliveTiming(self, now), now), FALSE)

\* start_timing without the same-pair test: it always restarts.
StartTiming_NoSameCheck(self, client_arg, project_arg, now) ==
    LET client == Trim(client_arg)
        project == Trim(project_arg)
        alive == KeepAliveTiming(self, now)
    IN  IF client = <<>> \/ project = <<>>
        THEN [self |-> StopTiming(alive, now), started |-> FALSE]
        ELSE LET fin == FinalizeCurrentTiming(alive, now)
                 set == [fin EXCEPT !.current_timing =
                            Some(CurrentTiming(client, project, now))]
             IN  [self |-> Notify(set, TRUE), started |-> TRUE]

\* start_timing that returns on an empty name without stopping.
StartTiming_EmptyNoStop(self, client_arg, project_arg, now) ==
    LET client == Trim(client_arg)
        project == Trim(project_arg)
        alive == KeepAliveTiming(self, now)
    IN  IF client = <<>> \/ project = <<>>
        THEN [self |-> alive, started |-> FALSE]
        ELSE IF /\ IsSome(alive.current_timing)
                /\ Unwrap(alive.current_timing).client = client
                /\ Unwrap(alive.current_timing).project = project
        THEN [self |-> alive, started |-> FALSE]
        ELSE LET fin == FinalizeCurrentTiming(alive, now)
                 set == [fin EXCEPT !.current_timing =
                            Some(CurrentTiming(client, project, now))]
             IN  [self |-> Notify(set, TRUE), started |-> TRUE]

\* start_timing that invokes the callback before it opens the session.
StartTiming_NotifyFirst(self, client_arg, project_arg, now) ==
    LET client == Trim(client_arg)
        project == Trim(project_arg)
        alive == KeepAliveTiming(self, now)
    IN  IF client = <<>> \/ project = <<>>
        THEN [self |-> StopTiming(alive, now), started |-> FALSE]
        ELSE IF /\ IsSome(alive.current_timing)
                /\ Unwrap(alive.current_timing).client = client
                /\ Unwrap(alive.current_timing).project = project
        THEN [self |-> alive, started |-> FALSE]
        ELSE LET fin == Notify(FinalizeCurrentTiming(alive, now), TRUE)
             IN  [self |-> [fin EXCEPT !.current_timing =
                               Some(CurrentTiming(client, project, now))],
                  started |-> TRUE]

\* TimingsRecorder::start_timing: the recorder after the call, and the result.
StartTiming(self, client_arg, project_arg, now) ==
    LET client == Trim(client_arg)
        project == Trim(project_arg)
        alive == KeepAliveTiming(self, now)
    IN  IF client = <<>> \/ project = <<>>
        THEN [self |-> StopTiming(alive, now), started |-> FALSE]
        ELSE IF /\ IsSome(alive.current_timing)
                /\ Unwrap(alive.current_timing).client = client
                /\ Unwrap(alive.current_timing).project = project
        THEN [self |-> alive, started |-> FALSE]
        ELSE LET fin == FinalizeCurrentTiming(alive, now)
                 set == [fin EXCEPT !.current_timing =
                            Some(CurrentTiming(client, project, now))]
             IN  [self |-> Notify(set, TRUE), started |-> TRUE]

\* write_timings that clears the buffer whatever insert_timings returned.
WriteTimings_ClearAlways(self, db, now, insert_ok) ==
    LET current == Unwrap(self.current_timing)
        timings_to_write ==
            IF /\ IsSome(self.current_timing)
               /\ now - current.start >= self.minimum_timing
            THEN Append(self.unwritten_timings,
                        Timing(current.client, current.project, current.start, now))
            ELSE self.unwritten_timings
    IN  [ self  |-> [self EXCEPT !.unwritten_timings = <<>>],
          db    |-> IF insert_ok THEN InsertTimings(db, timings_to_write) ELSE db,
          batch |-> timings_to_write,
          err   |-> ~insert_ok ]

\* write_timings that flushes the open session whatever its elapsed time.
WriteTimings_AlwaysCurrent(self, db, now, insert_ok) ==
    LET current == Unwrap(self.current_timing)
        timings_to_write ==
            IF IsSome(self.current_timing)
            THEN Append(self.unwritten_timings,
                        Timing(current.client, current.project, current.start, now))
            ELSE self.unwritten_timings
    IN  IF insert_ok
        THEN [ self  |-> [self EXCEPT !.unwritten_timings = <<>>],
               db    |-> InsertTimings(db, timings_to_write),
               batch |-> timings_to_write,
               err   |-> FALSE ]
        ELSE [ self |-> self, db |-> db, batch |-> timings_to_write, err |-> TRUE ]

\* TimingsRecorder::write_timings.  insert_ok is the outcome of insert_timings;
\* `batch` is what was handed to it.
WriteTimings(self, db, now, insert_ok) ==
    LET current == Unwrap(self.current_timing)
        timings_to_write ==
            IF /\ IsSome(self.current_timing)
               /\ now - current.start >= self.minimum_timing
            THEN Append(self.unwritten_timings,
                        Timing(current.client, current.project, current.start, now))
            ELSE self.unwritten_timings
    IN  IF insert_ok
        THEN [ self  |-> [self EXCEPT !.unwritten_timings = <<>>],
               db    |-> InsertTimings(db, timings_to_write),
               batch |-> timings_to_write,
               err   |-> FALSE ]
        ELSE [ self |-> self, db |-> db, batch |-> timings_to_write, err |-> TRUE ]

\* TotalsCache::get_totals that leaves an empty entry behind when the query fails.
CacheGetTotals_InstallOnError(cache, db, client, project, now, current_timing_start, read_ok) ==
    LET key == <<client, project>>
        cached == key \in DOMAIN cache
        daily == IF cached THEN cache[key]
                 ELSE IF read_ok
                 THEN FromDatabase(db, client, project, now, EightWeeksDays)
                 ELSE <<>>
        totals == ToTotals(daily, now)
    IN  [ cache  |-> [k \in (DOMAIN cache) \cup {key} |->
                         IF k = key THEN daily ELSE cache[k]],
          totals |-> IF ~cached /\ ~read_ok THEN None ELSE Some(totals),
          err    |-> ~cached /\ ~read_ok ]

\* TotalsCache::get_totals.  read_ok is the outcome of the daily-totals query.
CacheGetTotals(cache, db, client, project, now, current_timing_start, read_ok) ==
    LET key == <<client, project>>
        cached == key \in DOMAIN cache
        daily == IF cached THEN cache[key]
                 ELSE FromDatabase(db, client, project, now, EightWeeksDays)
        totals == ToTotals(daily, now)
    IN  IF ~cached /\ ~read_ok
        THEN [ cache |-> cache, totals |-> None, err |-> TRUE ]
        ELSE [ cache  |-> [k \in (DOMAIN cache) \cup {key} |->
                              IF k = key THEN daily ELSE cache[k]],
               totals |-> Some(IF IsSome(current_timing_start)
                               THEN WithCurrentTiming(totals,
                                        Unwrap(current_timing_start), now)
                               ELSE totals),
               err    |-> FALSE ]

\* get_totals that reads the daily totals before it flushes.
GetTotals_ReadBeforeFlush(self, db, client, project, now, insert_ok, read_ok) ==
    LET cold == ~HasCachedTotals(self.totals_cache, client, project)
        written == IF cold THEN WriteTimings(self, db, now, insert_ok)
                   ELSE [ self |-> self, db |-> db, batch |-> <<>>, err |-> FALSE ]
        current == Unwrap(self.current_timing)
        current_timing_start ==
            IF /\ ~cold
               /\ IsSome(self.current_timing)
               /\ current.client = client
               /\ current.project = project
            THEN Some(current.start)
            ELSE None
        got == CacheGetTotals(self.totals_cache, db, client, project,
                              now, current_timing_start, read_ok)
    IN  IF written.err
        THEN [ self |-> self, db |-> db, flushed |-> cold, batch |-> written.batch,
               totals |-> None, err |-> TRUE ]
        ELSE [ self    |-> [written.self EXCEPT !.totals_cache = got.cache],
               db      |-> written.db,
               flushed |-> cold,
               batch   |-> written.batch,
               totals  |-> got.totals,
               err     |-> got.err ]

\* get_totals that flushes also for a pair the cache holds.
GetTotals_AlwaysFlush(self, db, client, project, now, insert_ok, read_ok) ==
    LET cold == ~HasCachedTotals(self.totals_cache, client, project)
        written == WriteTimings(self, db, now, insert_ok)
        current == Unwrap(self.current_timing)
        current_timing_start ==
            IF /\ ~cold
               /\ IsSome(self.current_timing)
               /\ current.client = client
               /\ current.project = project
            THEN Some(current.start)
            ELSE None
        got == CacheGetTotals(written.self.totals_cache, written.db, client, project,
                              now, current_timing_start, read_ok)
    IN  IF written.err
        THEN [ self |-> self, db |-> db, flushed |-> TRUE, batch |-> written.batch,
               totals |-> None, err |-> TRUE ]
        ELSE [ self    |-> [written.self EXCEPT !.totals_cache = got.cache],
               db      |-> written.db,
               flushed |-> TRUE,
               batch   |-> written.batch,
               totals  |-> got.totals,
               err     |-> got.err ]

\* TimingsRecorder::get_totals
GetTotals(self, db, client, project, now, insert_ok, read_ok) ==
    LET cold == ~HasCachedTotals(self.totals_cache, client, project)
        written == IF cold THEN WriteTimings(self, db, now, insert_ok)
                   ELSE [ self |-> self, db |-> db, batch |-> <<>>, err |-> FALSE ]
        current == Unwrap(self.current_timing)
        current_timing_start ==
            IF /\ ~cold
               /\ IsSome(self.current_timing)
               /\ current.client = client
               /\ current.project = project
            THEN Some(current.start)
            ELSE None
        got == CacheGetTotals(written.self.totals_cache, written.db, client, project,
                              now, current_timing_start, read_ok)
    IN  IF written.err
        THEN [ self |-> self, db |-> db, flushed |-> cold, batch |-> written.batch,
               totals |-> None, err |-> TRUE ]
        ELSE [ self    |-> [written.self EXCEPT !.totals_cache = got.cache],
               db      |-> written.db,
               flushed |-> cold,
               batch   |-> written.batch,
               totals  |-> got.totals,
               err     |-> got.err ]

\* ------------------------------------------------------------------ state
VARIABLES
    unwritten_timings,  \* TimingsRecorder.unwritten_timings
    current_timing,     \* TimingsRecorder.current_timing
    last_keep_alive,    \* TimingsRecorder.last_keep_alive
    minimum_timing,     \* TimingsRecorder.minimum_timing
    totals_cache,       \* TimingsRecorder.totals_cache: (client, project) -> DailyTotals
    running_changed,    \* TRUE when a running_changed callback is registered
    db,                 \* rows of the timing table
    out,                \* what the last operation returned and did to its collaborators
    call,               \* the last operation and its arguments
    session,            \* history of the session last started from Idle
    keep_alives,        \* every instant a keep-alive (explicit or implicit) was given
    accepted,           \* every timing ever appended to the unwritten buffer, in order
    shared,             \* TimingsRecorderShared: the mutex and its callers
    debounce,           \* run_debounced: DEBOUNCERS, the spawned tasks and the time
    summary_cache,      \* TimingsRecorder.summary_cache: (day, client, project) -> text
    summary,            \* rows of the summary table
    clock,              \* the wall clock: the latest instant handed in as `now`
    ops                 \* number of operations performed

\* The callers of one TimingsRecorderShared (clones of it held by tasks).
Callers == {1, 2}

\* No caller is inside a call and the mutex is free.
SharedIdle ==
    [ guard    |-> 0,                            \* the caller holding the MutexGuard
      pc       |-> [c \in Callers |-> "ready"],  \* where each caller is
      batch    |-> <<>>,                         \* timings_to_write of the suspended call
      snapshot |-> <<>>,                         \* the buffer when that call began
      now      |-> 0,                            \* the now of the suspended call
      waiting  |-> [c \in Callers |-> <<>>],     \* the call a caller is blocked in
      executor |-> "current_thread",             \* the flavor of the tokio runtime
      event    |-> "new",                        \* what the last step was
      cancels  |-> 0 ]                           \* futures dropped so far

\* HashMap::new() of summary_cache.
NoSummaries == <<>>

\* No debounced callback was ever scheduled.
NoDebounce ==
    [ map   |-> [id \in DebounceIds |-> 0],  \* DEBOUNCERS: the handle kept per id
      tasks |-> <<>>,                         \* the tasks spawned so far
      time  |-> 0 ]                           \* the runtime's clock, in ms

vars == << unwritten_timings, current_timing, last_keep_alive, minimum_timing,
           totals_cache, running_changed, db, out, call, session, keep_alives,
           accepted, shared, debounce, summary_cache, summary, clock, ops >>

\* The recorder as the operation in progress sees it.
Self ==
    [ unwritten_timings |-> unwritten_timings,
      current_timing    |-> current_timing,
      last_keep_alive   |-> last_keep_alive,
      minimum_timing    |-> minimum_timing,
      totals_cache      |-> totals_cache,
      running_changed   |-> running_changed,
      notified          |-> <<>>,
      observed          |-> <<>>,
      cache_adds        |-> <<>> ]

Store(self) ==
    /\ unwritten_timings' = self.unwritten_timings
    /\ current_timing' = self.current_timing
    /\ last_keep_alive' = self.last_keep_alive
    /\ minimum_timing' = self.minimum_timing
    /\ totals_cache' = self.totals_cache
    /\ running_changed' = self.running_changed

Out(self, started, flushed, inserted, batch, totals, err) ==
    [ notified   |-> self.notified,    \* running_changed invocations, in order
      observed   |-> self.observed,    \* is_running() at each invocation
      cache_adds |-> self.cache_adds,  \* timings passed to TotalsCache::add_timing
      started    |-> started,          \* start_timing's result
      flushed    |-> flushed,          \* insert_timings was called
      inserted   |-> inserted,         \* insert_timings returned Ok
      batch      |-> batch,            \* the timings handed to insert_timings
      totals     |-> totals,           \* get_totals' Ok value
      err        |-> err ]             \* the operation returned Err

\* `running` is is_running() when the operation is entered.
Call(op, client, project, now) ==
    [ op |-> op, client |-> client, project |-> project, now |-> now,
      running |-> IsSome(current_timing) ]

\* ---------------------------------------------------------------- history
NoSession ==
    [ state |-> "none", client |-> <<>>, project |-> <<>>, ts |-> 0, te |-> 0,
      ka |-> 0, gaps |-> 0, tp |-> 0, tk |-> 0, produced |-> <<>> ]

\* The timings an operation appended to the unwritten buffer.
Appended(before, after) ==
    SubSeq(after.unwritten_timings, Len(before.unwritten_timings) + 1,
           Len(after.unwritten_timings))

\* A keep-alive instant inside the tracked session: a gap is counted when the
\* instant lies more than 60 whole seconds after the previous one.
Touch(sess, now, appended) ==
    LET gap == NumSeconds(now - sess.ka) > KeepAliveSecs
    IN  [sess EXCEPT
            !.gaps = IF gap THEN @ + 1 ELSE @,
            !.tp = IF gap /\ sess.gaps = 0 THEN sess.ka ELSE @,
            !.tk = IF gap /\ sess.gaps = 0 THEN now ELSE @,
            !.ka = now,
            !.produced = @ \o appended]

SessionAfterKeepAlive(before, after, now) ==
    IF session.state = "open" THEN Touch(session, now, Appended(before, after))
    ELSE NoSession

SessionAfterStop(before, after, now) ==
    IF session.state = "open"
    THEN [Touch(session, now, Appended(before, after)) EXCEPT
            !.state = "stopped", !.te = now]
    ELSE NoSession

SessionAfterStart(before, after, started, now) ==
    IF before.current_timing = None /\ started
    THEN LET current == Unwrap(after.current_timing)
         IN  [NoSession EXCEPT !.state = "open", !.client = current.client,
                !.project = current.project, !.ts = now, !.ka = now]
    ELSE IF session.state = "open" /\ ~started /\ IsSome(after.current_timing)
    THEN Touch(session, now, Appended(before, after))
    ELSE NoSession

SessionAfterFlush == IF session.state = "open" THEN session ELSE NoSession

\* ---------------------------------------------------------------- actions
Init ==
    /\ \E arg \in MinimumArgs :
        LET self == NewRecorder(arg)
        IN  /\ unwritten_timings = self.unwritten_timings
            /\ current_timing = self.current_timing
            /\ last_keep_alive = self.last_keep_alive
            /\ minimum_timing = self.minimum_timing
            /\ totals_cache = self.totals_cache
            /\ running_changed = self.running_changed
            /\ out = Out(self, FALSE, FALSE, FALSE, <<>>, None, FALSE)
    /\ db = {}
    /\ call = [ op |-> "new", client |-> <<>>, project |-> <<>>, now |-> 0,
                running |-> FALSE ]
    /\ session = NoSession
    /\ keep_alives = {}
    /\ accepted = <<>>
    /\ shared = SharedIdle
    /\ debounce = NoDebounce
    /\ summary_cache = NoSummaries
    /\ summary = {}
    /\ clock = 0
    /\ ops = 0

\* The instants an operation may be given: the wall clock does not go back.
Now == {t \in Times : t >= clock}

Tick == ops' = ops + 1

\* set_running_changed_callback.  The callback is registered before the recorder
\* is used (timings-app main.rs registers it right after TimingsRecorder::new).
set_running_changed_callback ==
    /\ ops = 0
    /\ running_changed' = TRUE
    /\ out' = Out(Self, FALSE, FALSE, FALSE, <<>>, None, FALSE)
    /\ call' = Call("set_running_changed_callback", <<>>, <<>>, clock)
    /\ session' = SessionAfterFlush
    /\ Tick
    /\ UNCHANGED << shared, debounce, summary_cache, summary >>
    /\ UNCHANGED << unwritten_timings, current_timing, last_keep_alive,
                    minimum_timing, totals_cache, db, keep_alives, accepted, clock >>

start_timing ==
    /\ ops < MaxOps
    /\ \E args \in StartArgs, now \in Now :
        \E before \in {Self} : \E res \in {StartTiming(before, args[1], args[2], now)} :
            /\ Store(res.self)
            /\ out' = Out(res.self, res.started, FALSE, FALSE, <<>>, None, FALSE)
            /\ call' = Call("start_timing", args[1], args[2], now)
            /\ clock' = now
            /\ session' = SessionAfterStart(before, res.self, res.started, now)
            /\ accepted' = accepted \o Appended(before, res.self)
            /\ keep_alives' = keep_alives \cup {now}
    /\ Tick
    /\ UNCHANGED << shared, debounce, summary_cache, summary >>
    /\ UNCHANGED db

stop_timing ==
    /\ ops < MaxOps
    /\ \E now \in Now :
        \E before \in {Self} : \E self \in {StopTiming(before, now)} :
            /\ Store(self)
            /\ out' = Out(self, FALSE, FALSE, FALSE, <<>>, None, FALSE)
            /\ call' = Call("stop_timing", <<>>, <<>>, now)
            /\ clock' = now
            /\ session' = SessionAfterStop(before, self, now)
            /\ accepted' = accepted \o Appended(before, self)
            /\ keep_alives' = keep_alives \cup {now}
    /\ Tick
    /\ UNCHANGED << shared, debounce, summary_cache, summary >>
    /\ UNCHANGED db

keep_alive_timing ==
    /\ ops < MaxOps
    /\ \E now \in Now :
        \E before \in {Self} : \E self \in {KeepAliveTiming(before, now)} :
            /\ Store(self)
            /\ out' = Out(self, FALSE, FALSE, FALSE, <<>>, None, FALSE)
            /\ call' = Call("keep_alive_timing", <<>>, <<>>, now)
            /\ clock' = now
            /\ session' = SessionAfterKeepAlive(before, self, now)
            /\ accepted' = accepted \o Appended(before, self)
            /\ keep_alives' = keep_alives \cup {now}
    /\ Tick
    /\ UNCHANGED << shared, debounce, summary_cache, summary >>
    /\ UNCHANGED db

write_timings ==
    /\ ops < MaxOps
    /\ \E now \in Now, fail \in Failures \ {"read"} :
        \E res \in {WriteTimings(Self, db, now, fail # "insert")} :
            /\ Store(res.self)
            /\ db' = res.db
            /\ out' = Out(res.self, FALSE, TRUE, ~res.err, res.batch, None, res.err)
            /\ call' = Call("write_timings", <<>>, <<>>, now)
            /\ clock' = now
    /\ session' = SessionAfterFlush
    /\ Tick
    /\ UNCHANGED << shared, debounce, summary_cache, summary >>
    /\ UNCHANGED << keep_alives, accepted >>

get_totals ==
    /\ ops < MaxOps
    /\ \E pair \in Pairs, now \in Now, fail \in Failures :
        \E res \in {GetTotals(Self, db, pair[1], pair[2], now,
                              fail # "insert", fail # "read")} :
            /\ Store(res.self)
            /\ db' = res.db
            /\ out' = Out(res.self, FALSE, res.flushed, res.flushed /\ fail # "insert",
                        res.batch, res.totals, res.err)
            /\ call' = Call("get_totals", pair[1], pair[2], now)
            /\ clock' = now
    /\ session' = SessionAfterFlush
    /\ Tick
    /\ UNCHANGED << shared, debounce, summary_cache, summary >>
    /\ UNCHANGED << keep_alives, accepted >>

Next ==
    \/ set_running_changed_callback
    \/ start_timing
    \/ stop_timing
    \/ keep_alive_timing
    \/ write_timings
    \/ get_totals

Spec == Init /\ [][Next]_vars

\* ------------------------------------------------ a clock that is set back
\* `now` is chrono::Utc::now() at every call site: the system clock, which an
\* adjustment can set back between two calls.
clock_set_back ==
    /\ ops < MaxOps
    /\ \E now \in Times :
          /\ now < clock
          /\ clock' = now
          /\ call' = Call("clock_set_back", <<>>, <<>>, now)
    /\ out' = Out(Self, FALSE, FALSE, FALSE, <<>>, None, FALSE)
    /\ session' = SessionAfterFlush
    /\ Tick
    /\ UNCHANGED << shared, debounce, summary_cache, summary >>
    /\ UNCHANGED << unwritten_timings, current_timing, last_keep_alive,
                    minimum_timing, totals_cache, running_changed, db, keep_alives,
                    accepted >>

NextClock ==
    \/ Next
    \/ clock_set_back

SpecClock == Init /\ [][NextClock]_vars

\* ------------------------------------------------- TimingsRecorderShared
\* Every method locks the std::sync::Mutex around the recorder.  The synchronous
\* ones run the recorder's method and drop the guard in one step; write_timings
\* keeps the guard while its future is suspended in insert_timings, until the
\* future is polled again (or dropped).  A caller that finds the mutex locked
\* blocks its thread in lock(); on a current_thread runtime that is the thread
\* every task runs on.

\* Mutex::lock returns at once.
Acquirable_Always(sh) == TRUE

\* Mutex::lock returns at once: no guard is alive.
Acquirable(sh) == sh.guard = 0

\* write_timings up to its await, had it moved the buffer out instead of cloning it.
WriteTimingsSuspended_Taken(self, now) ==
    [ self  |-> [self EXCEPT !.unwritten_timings = <<>>],
      batch |-> WriteTimings(self, {}, now, TRUE).batch ]

\* write_timings up to its await: the recorder is untouched and timings_to_write
\* is on its way to insert_timings.
WriteTimingsSuspended(self, now) ==
    [ self  |-> self,
      batch |-> WriteTimings(self, {}, now, TRUE).batch ]

\* write_timings after its await.
WriteTimingsResumed(self, ok) ==
    IF ok THEN [self EXCEPT !.unwritten_timings = <<>>] ELSE self

\* A thread is there to run a task: on a current_thread runtime, not while a
\* task blocks it in lock().
ExecutorFree ==
    \/ shared.executor = "multi_thread"
    \/ \A c \in Callers : shared.pc[c] # "blocked"

\* The instants callers of the shared recorder pass as now.
SharedTimes == {0, 3000, 64000}

SharedNow == {t \in SharedTimes : t >= clock}

\* The (client, project) arguments callers of the shared recorder pass.
SharedStartArgs == { << <<"B">>, <<"P">> >>, << <<" ">>, <<"P">> >> }

SharedPairs == { << <<"B">>, <<"P">> >> }

\* The recorder's synchronous method, run under the guard.
SyncResult(self, op, client, project, now) ==
    CASE op = "start_timing" -> StartTiming(self, client, project, now)
      [] op = "stop_timing" -> [self |-> StopTiming(self, now), started |-> FALSE]
      [] op = "keep_alive_timing" ->
            [self |-> KeepAliveTiming(self, now), started |-> FALSE]

RunSync(op, client, project, now) ==
    \E before \in {Self} : \E res \in {SyncResult(before, op, client, project, now)} :
        /\ Store(res.self)
        /\ out' = Out(res.self, res.started, FALSE, FALSE, <<>>, None, FALSE)
        /\ call' = Call(op, client, project, now)
        /\ accepted' = accepted \o Appended(before, res.self)
        /\ keep_alives' = keep_alives \cup {now}
        /\ UNCHANGED db

\* get_totals of a pair the cache holds: no await on the way.
RunWarmTotals(client, project, now) ==
    \E res \in {GetTotals(Self, db, client, project, now, TRUE, TRUE)} :
        /\ Store(res.self)
        /\ out' = Out(res.self, FALSE, FALSE, FALSE, <<>>, res.totals, res.err)
        /\ call' = Call("get_totals", client, project, now)
        /\ UNCHANGED << db, accepted, keep_alives >>

\* The caller blocks in lock() with its call pending.
BlockIn(c, op, client, project, now) ==
    /\ shared' = [shared EXCEPT
                    !.pc[c] = "blocked",
                    !.waiting[c] = <<Call(op, client, project, now)>>,
                    !.event = "block"]
    /\ UNCHANGED << unwritten_timings, current_timing, last_keep_alive,
                    minimum_timing, totals_cache, running_changed, db, out, call,
                    accepted, keep_alives >>

\* write_timings, called directly or by get_totals for a pair the cache does not
\* hold, runs up to its await and is suspended holding the guard.
BeginWrite(c, op, client, project, now) ==
    \E res \in {WriteTimingsSuspended(Self, now)} :
        /\ Store(res.self)
        /\ shared' = [shared EXCEPT
                        !.guard = c, !.pc[c] = "inserting", !.batch = res.batch,
                        !.snapshot = unwritten_timings, !.now = now,
                        !.waiting[c] = <<>>, !.event = "begin"]
        /\ out' = Out(res.self, FALSE, TRUE, FALSE, res.batch, None, FALSE)
        /\ call' = Call(op, client, project, now)
        /\ UNCHANGED << db, accepted, keep_alives >>

\* The call of a caller that has the guard.
RunLocked(c, op, client, project, now, event) ==
    IF op \in {"start_timing", "stop_timing", "keep_alive_timing"}
    THEN /\ RunSync(op, client, project, now)
         /\ shared' = [shared EXCEPT !.pc[c] = "ready", !.waiting[c] = <<>>,
                                      !.event = event]
    ELSE IF op = "get_totals" /\ HasCachedTotals(totals_cache, client, project)
    THEN /\ RunWarmTotals(client, project, now)
         /\ shared' = [shared EXCEPT !.pc[c] = "ready", !.waiting[c] = <<>>,
                                      !.event = event]
    ELSE BeginWrite(c, op, client, project, now)

\* A call made by a ready caller.
SharedCall(op, client, project) ==
    /\ ops < MaxSharedOps
    /\ ExecutorFree
    /\ \E c \in Callers, now \in SharedNow :
          /\ shared.pc[c] = "ready"
          /\ clock' = now
          /\ IF Acquirable(shared)
             THEN RunLocked(c, op, client, project, now, "call")
             ELSE BlockIn(c, op, client, project, now)

shared_start_timing ==
    /\ \E args \in SharedStartArgs : SharedCall("start_timing", args[1], args[2])
    /\ Tick
    /\ UNCHANGED << session, debounce, summary_cache, summary >>

shared_stop_timing ==
    /\ SharedCall("stop_timing", <<>>, <<>>)
    /\ Tick
    /\ UNCHANGED << session, debounce, summary_cache, summary >>

shared_keep_alive_timing ==
    /\ SharedCall("keep_alive_timing", <<>>, <<>>)
    /\ Tick
    /\ UNCHANGED << session, debounce, summary_cache, summary >>

shared_write_timings ==
    /\ SharedCall("write_timings", <<>>, <<>>)
    /\ Tick
    /\ UNCHANGED << session, debounce, summary_cache, summary >>

shared_get_totals ==
    /\ \E pair \in SharedPairs : SharedCall("get_totals", pair[1], pair[2])
    /\ Tick
    /\ UNCHANGED << session, debounce, summary_cache, summary >>

\* insert_timings commits its transaction (on the connection's worker).
persistence_commits ==
    /\ shared.guard # 0
    /\ shared.pc[shared.guard] = "inserting"
    /\ db' = InsertTimings(db, shared.batch)
    /\ shared' = [shared EXCEPT !.pc[shared.guard] = "committed", !.event = "commit"]
    /\ UNCHANGED << unwritten_timings, current_timing, last_keep_alive,
                    minimum_timing, totals_cache, running_changed, out, call, session,
                    keep_alives, accepted, debounce, summary_cache, summary, clock, ops >>

\* insert_timings fails and rolls back.
persistence_fails ==
    /\ shared.guard # 0
    /\ shared.pc[shared.guard] = "inserting"
    /\ shared' = [shared EXCEPT !.pc[shared.guard] = "failed", !.event = "fail"]
    /\ UNCHANGED << unwritten_timings, current_timing, last_keep_alive,
                    minimum_timing, totals_cache, running_changed, db, out, call,
                    session, keep_alives, accepted, debounce, summary_cache, summary, clock, ops >>

\* The suspended write_timings is polled with the result of insert_timings,
\* finishes and drops the guard.
shared_write_timings_resumes ==
    /\ shared.guard # 0
    /\ shared.pc[shared.guard] \in {"committed", "failed"}
    /\ call.op = "write_timings"
    /\ ExecutorFree
    /\ \E ok \in {shared.pc[shared.guard] = "committed"} :
          /\ Store(WriteTimingsResumed(Self, ok))
          /\ out' = [out EXCEPT !.inserted = ok, !.err = ~ok]
    /\ shared' = [shared EXCEPT !.guard = 0, !.pc[shared.guard] = "ready",
                                 !.event = "resume"]
    /\ UNCHANGED << db, call, session, keep_alives, accepted, debounce, summary_cache, summary, clock, ops >>

\* The suspended get_totals is polled with the result of insert_timings: on Ok
\* it clears the buffer, reads the rows of the pair, fills the cache and drops
\* the guard; on Err it returns the error.
shared_get_totals_resumes ==
    /\ shared.guard # 0
    /\ shared.pc[shared.guard] \in {"committed", "failed"}
    /\ call.op = "get_totals"
    /\ ExecutorFree
    /\ \E ok \in {shared.pc[shared.guard] = "committed"}, read_ok \in BOOLEAN :
          \E res \in {GetTotals(Self, db, call.client, call.project, shared.now,
                                ok, read_ok)} :
              /\ Store(res.self)
              /\ out' = Out(res.self, FALSE, TRUE, ok, res.batch, res.totals, res.err)
    /\ shared' = [shared EXCEPT !.guard = 0, !.pc[shared.guard] = "ready",
                                 !.event = "resume"]
    /\ UNCHANGED << db, call, session, keep_alives, accepted, debounce, summary_cache, summary, clock, ops >>

\* The future of the suspended write_timings or get_totals is dropped: the
\* guard goes with it, and a transaction that has not committed is rolled back.
shared_future_dropped ==
    /\ shared.guard # 0
    /\ shared.pc[shared.guard] \in {"inserting", "committed", "failed"}
    /\ ExecutorFree
    /\ shared' = [shared EXCEPT !.guard = 0, !.pc[shared.guard] = "ready",
                                 !.event = "cancel", !.cancels = @ + 1]
    /\ UNCHANGED << unwritten_timings, current_timing, last_keep_alive,
                    minimum_timing, totals_cache, running_changed, db, out, call,
                    session, keep_alives, accepted, debounce, summary_cache, summary, clock, ops >>

\* A caller blocked in lock() gets the mutex and its call runs.
shared_lock_acquired ==
    /\ \E c \in Callers :
          /\ shared.pc[c] = "blocked"
          /\ Acquirable(shared)
          /\ \E pending \in {Unwrap(shared.waiting[c])} :
                RunLocked(c, pending.op, pending.client, pending.project,
                          pending.now, "acquire")
    /\ UNCHANGED << session, debounce, summary_cache, summary, clock, ops >>

InitShared ==
    /\ \E arg \in {0} :
        LET self == NewRecorder(arg)
        IN  /\ unwritten_timings = self.unwritten_timings
            /\ current_timing = self.current_timing
            /\ last_keep_alive = self.last_keep_alive
            /\ minimum_timing = self.minimum_timing
            /\ totals_cache = self.totals_cache
            /\ running_changed = self.running_changed
            /\ out = Out(self, FALSE, FALSE, FALSE, <<>>, None, FALSE)
    /\ \E executor \in {"current_thread", "multi_thread"} :
          shared = [SharedIdle EXCEPT !.executor = executor]
    /\ db = {}
    /\ call = [ op |-> "new", client |-> <<>>, project |-> <<>>, now |-> 0,
                running |-> FALSE ]
    /\ session = NoSession
    /\ keep_alives = {}
    /\ accepted = <<>>
    /\ debounce = NoDebounce
    /\ summary_cache = NoSummaries
    /\ summary = {}
    /\ clock = 0
    /\ ops = 0

NextShared ==
    \/ shared_start_timing
    \/ shared_stop_timing
    \/ shared_keep_alive_timing
    \/ shared_write_timings
    \/ shared_get_totals
    \/ persistence_commits
    \/ persistence_fails
    \/ shared_write_timings_resumes
    \/ shared_get_totals_resumes
    \/ shared_future_dropped
    \/ shared_lock_acquired

SpecShared == InitShared /\ [][NextShared]_vars

\* ------------------------------------------------------------ run_debounced
\* DEBOUNCERS keeps the JoinHandle of the last task spawned for each id.  A task
\* sleeps for its delay and then calls its callback; a task aborted while it
\* sleeps never calls it.

\* The handle is dropped without abort(): the task is detached.
Abort_Detach(task) == task

\* JoinHandle::abort: a task that has not finished is cancelled at its await.
Abort(task) ==
    IF task.state = "sleeping" THEN [task EXCEPT !.state = "aborted"] ELSE task

\* tokio::spawn(async move { sleep(delay).await; callback(); })
Spawn(id, delay, now) ==
    [ id |-> id, called |-> now, deadline |-> now + delay, state |-> "sleeping",
      runs |-> 0, ran_at |-> 0 ]

\* run_debounced_task
RunDebouncedTask(d, id, delay) ==
    LET previous == d.map[id]
        tasks == IF previous # 0
                 THEN [d.tasks EXCEPT ![previous] = Abort(@)]
                 ELSE d.tasks
    IN  [d EXCEPT
            !.tasks = Append(tasks, Spawn(id, delay, d.time)),
            !.map[id] = Len(d.tasks) + 1]

\* run_debounced_spawn wraps the future in a callback that spawns it.
run_debounced_spawn ==
    /\ Len(debounce.tasks) < MaxDebounceCalls
    /\ \E id \in DebounceIds, delay \in DebounceDelays :
          /\ \E t \in DebounceTimes : t >= debounce.time + delay
          /\ debounce' = RunDebouncedTask(debounce, id, delay)
    /\ UNCHANGED << unwritten_timings, current_timing, last_keep_alive,
                    minimum_timing, totals_cache, running_changed, db, out, call,
                    session, keep_alives, accepted, shared,
                    summary_cache, summary, clock, ops >>

\* The sleep of a task is over: the task is polled and calls its callback.
debounced_task_wakes ==
    /\ \E k \in DOMAIN debounce.tasks :
          /\ debounce.tasks[k].state = "sleeping"
          /\ debounce.time >= debounce.tasks[k].deadline
          /\ debounce' = [debounce EXCEPT
                            !.tasks[k].state = "ran",
                            !.tasks[k].runs = @ + 1,
                            !.tasks[k].ran_at = debounce.time]
    /\ UNCHANGED << unwritten_timings, current_timing, last_keep_alive,
                    minimum_timing, totals_cache, running_changed, db, out, call,
                    session, keep_alives, accepted, shared,
                    summary_cache, summary, clock, ops >>

\* Time passes on the runtime's clock.
debounce_time_passes ==
    /\ \E t \in DebounceTimes :
          /\ t > debounce.time
          /\ debounce' = [debounce EXCEPT !.time = t]
    /\ UNCHANGED << unwritten_timings, current_timing, last_keep_alive,
                    minimum_timing, totals_cache, running_changed, db, out, call,
                    session, keep_alives, accepted, shared,
                    summary_cache, summary, clock, ops >>

InitDebounce == Init /\ minimum_timing = 0

NextDebounce == run_debounced_spawn \/ debounced_task_wakes \/ debounce_time_passes

\* The runtime keeps its clock going and polls the tasks whose sleep is over.
SpecDebounce ==
    /\ InitDebounce
    /\ [][NextDebounce]_vars
    /\ WF_vars(debounced_task_wakes)
    /\ WF_vars(debounce_time_passes)

\* ------------------------------------------------------ the periodic flush
\* The application flushes again and again (AppMessage::WriteTimings): a
\* write_timings at the current instant, as often as the loop gets to it.
periodic_write_timings ==
    /\ \E fail \in Failures \ {"read"} :
        \E res \in {WriteTimings(Self, db, clock, fail # "insert")} :
            /\ Store(res.self)
            /\ db' = res.db
            /\ out' = Out(res.self, FALSE, TRUE, ~res.err, res.batch, None, res.err)
            /\ call' = Call("write_timings", <<>>, <<>>, clock)
    /\ session' = SessionAfterFlush
    /\ UNCHANGED << keep_alives, accepted, shared, debounce, summary_cache, summary, clock, ops >>

\* A periodic flush in which persistence succeeds.
PeriodicWriteSucceeds == periodic_write_timings /\ out'.inserted

\* The recorder as the application's loop drives it between two flushes; the
\* flush that a cold get_totals makes is write_timings itself.
NextFlush ==
    \/ set_running_changed_callback
    \/ start_timing
    \/ stop_timing
    \/ keep_alive_timing
    \/ write_timings
    \/ periodic_write_timings

\* The flush keeps being invoked and persistence succeeds again and again.
SpecFlush == Init /\ [][NextFlush]_vars /\ WF_vars(PeriodicWriteSucceeds)

\* ------------------------------------------------- TotalsCache on its own
\* The totals cache driven directly: one warm pair whose DailyTotals hold up to
\* two buckets of earlier days, timings added as the recorder adds them (each
\* ends at the instant it is added and starts after the one before), and
\* to_totals evaluated at instants that do not go back.
WarmPair == << <<"A">>, <<"P">> >>

InitialDailyTotals ==
    { <<>> } \cup
    UNION { { [d \in {d1, d2} |-> IF d = d1 THEN BucketMs[1] ELSE BucketMs[2]] :
                d2 \in {d \in BucketDays : d >= d1} } : d1 \in BucketDays }

InitTotals ==
    /\ \E daily \in InitialDailyTotals :
          totals_cache = [key \in {WarmPair} |-> daily]
    /\ unwritten_timings = <<>>
    /\ current_timing = None
    /\ last_keep_alive = None
    /\ minimum_timing = 0
    /\ running_changed = FALSE
    /\ db = {}
    /\ out = Out(NewRecorder(0), FALSE, FALSE, FALSE, <<>>, None, FALSE)
    /\ call = [ op |-> "new", client |-> <<>>, project |-> <<>>, now |-> 0,
                running |-> FALSE ]
    /\ session = NoSession
    /\ keep_alives = {}
    /\ accepted = <<>>
    /\ shared = SharedIdle
    /\ debounce = NoDebounce
    /\ summary_cache = NoSummaries
    /\ summary = {}
    /\ clock = 0
    /\ ops = 0

\* TotalsCache::add_timing of a timing that ends at `now`.
cache_add_timing ==
    /\ ops < MaxTotalsOps
    /\ \E pair \in Pairs, now \in TotalsTimes, duration \in TimingDurations :
          /\ now - duration >= clock
          /\ \E timing \in {Timing(pair[1], pair[2], now - duration, now)} :
                /\ totals_cache' = CacheAddTiming(totals_cache, timing)
                /\ out' = [out EXCEPT !.cache_adds = <<timing>>, !.totals = None]
                /\ call' = Call("cache_add_timing", pair[1], pair[2], now)
                /\ clock' = now
    /\ Tick
    /\ UNCHANGED << shared, debounce, summary_cache, summary >>
    /\ UNCHANGED << unwritten_timings, current_timing, last_keep_alive,
                    minimum_timing, running_changed, db, session, keep_alives,
                    accepted >>

\* DailyTotals::to_totals of the warm pair's entry.
to_totals ==
    /\ ops < MaxTotalsOps
    /\ \E now \in TotalsTimes :
          /\ now >= clock
          /\ out' = [out EXCEPT !.cache_adds = <<>>,
                                !.totals = Some(ToTotals(totals_cache[WarmPair], now))]
          /\ call' = Call("to_totals", WarmPair[1], WarmPair[2], now)
          /\ clock' = now
    /\ Tick
    /\ UNCHANGED << shared, debounce, summary_cache, summary >>
    /\ UNCHANGED << unwritten_timings, current_timing, last_keep_alive,
                    minimum_timing, totals_cache, running_changed, db, session,
                    keep_alives, accepted >>

NextTotals ==
    \/ cache_add_timing
    \/ to_totals

SpecTotals == InitTotals /\ [][NextTotals]_vars

\* TotalsCache::get_totals of the warm pair, as TimingsRecorder::get_totals calls
\* it: without a session, or with the start of the open session of the pair,
\* which is not after `now`.
cache_get_totals ==
    /\ ops < MaxTotalsOps
    /\ \E now \in TotalsTimes :
       \E current_timing_start \in {None} \cup {Some(t) : t \in {t \in TotalsTimes : t <= now}} :
          /\ now >= clock
          /\ \E res \in {CacheGetTotals(totals_cache, db, WarmPair[1], WarmPair[2], now,
                                        current_timing_start, TRUE)} :
                /\ totals_cache' = res.cache
                /\ out' = [out EXCEPT !.cache_adds = <<>>, !.totals = res.totals]
          /\ call' = [Call("cache_get_totals", WarmPair[1], WarmPair[2], now)
                         EXCEPT !.running = IsSome(current_timing_start)]
          /\ clock' = now
    /\ Tick
    /\ UNCHANGED << shared, debounce, summary_cache, summary >>
    /\ UNCHANGED << unwritten_timings, current_timing, last_keep_alive,
                    minimum_timing, running_changed, db, session, keep_alives,
                    accepted >>

NextLiveTotals ==
    \/ cache_add_timing
    \/ cache_get_totals

SpecLiveTotals == InitTotals /\ [][NextLiveTotals]_vars

\* ---------------------------------------------------- the eight-week read
\* The cold fill over a store that reaches back eight weeks.  A stored row keeps
\* its start as a day and a millisecond of that day (UTC), so that instants eight
\* weeks apart stay within the integers of the checker.

StoredRow(client, project, start, duration) ==
    [ client |-> client, project |-> project, day |-> start[1], ms |-> start[2],
      duration |-> duration ]

\* timing.start >= from, with from = to - days_back days.
StartsNotBefore(row, to, days_back) ==
    LET from_day == to \div MsPerDay - days_back
        from_ms == to % MsPerDay
    IN  row.day > from_day \/ (row.day = from_day /\ row.ms >= from_ms)

\* timing.start <= to
StartsNotAfter(row, to) ==
    LET to_day == to \div MsPerDay
        to_ms == to % MsPerDay
    IN  row.day < to_day \/ (row.day = to_day /\ row.ms <= to_ms)

\* strftime('%Y-%m-%d', start, 'localtime'): the local day of the row's start.
StoredLocalDate(row) == row.day + (row.ms + LocalOffsetMs) \div MsPerDay

RECURSIVE SumStored(_)
SumStored(rows) ==
    IF rows = {} THEN 0
    ELSE LET row == CHOOSE r \in rows : TRUE
         IN  row.duration + SumStored(rows \ {row})

\* DailyTotals::from_database over stored rows: the rows starting in
\* [to - days_back days, to], summed per local day of the start.
FromDatabaseStored(store, client, project, to, days_back) ==
    LET rows == {row \in store : /\ row.client = client
                                 /\ row.project = project
                                 /\ StartsNotBefore(row, to, days_back)
                                 /\ StartsNotAfter(row, to)}
        days == {StoredLocalDate(row) : row \in rows}
    IN  [d \in days |->
            HoursToDuration(SumStored({row \in rows : StoredLocalDate(row) = d}))]

InitColdFill ==
    /\ totals_cache = <<>>
    /\ unwritten_timings = <<>>
    /\ current_timing = None
    /\ last_keep_alive = None
    /\ minimum_timing = 0
    /\ running_changed = FALSE
    /\ db = {}
    /\ out = Out(NewRecorder(0), FALSE, FALSE, FALSE, <<>>, None, FALSE)
    /\ call = [ op |-> "new", client |-> <<>>, project |-> <<>>, now |-> 0,
                running |-> FALSE ]
    /\ session = NoSession
    /\ keep_alives = {}
    /\ accepted = <<>>
    /\ shared = SharedIdle
    /\ debounce = NoDebounce
    /\ summary_cache = NoSummaries
    /\ summary = {}
    /\ clock = 0
    /\ ops = 0

\* A row an earlier run of the application has left in the store.
stored_row ==
    /\ totals_cache = <<>>
    /\ Cardinality(db) < MaxColdFillRows
    /\ \E pair \in Pairs, start \in ColdFillStarts, duration \in TimingDurations :
          db' = db \cup {StoredRow(pair[1], pair[2], start, duration)}
    /\ UNCHANGED << unwritten_timings, current_timing, last_keep_alive,
                    minimum_timing, totals_cache, running_changed, out, call, session,
                    keep_alives, accepted, shared, debounce, summary_cache, summary, clock, ops >>

\* get_totals of a cold pair of an Idle recorder with an empty buffer: the
\* flush writes nothing, the read fills the cache.
cold_get_totals ==
    /\ \E pair \in Pairs, now \in ColdFillTimes :
          /\ now >= clock
          /\ ~HasCachedTotals(totals_cache, pair[1], pair[2])
          /\ \E daily \in {FromDatabaseStored(db, pair[1], pair[2], now,
                                               EightWeeksDays)} :
                /\ totals_cache' = [k \in (DOMAIN totals_cache) \cup {pair} |->
                                        IF k = pair THEN daily ELSE totals_cache[k]]
                /\ out' = [out EXCEPT !.flushed = TRUE, !.inserted = TRUE,
                                      !.totals = Some(ToTotals(daily, now))]
          /\ call' = Call("get_totals", pair[1], pair[2], now)
          /\ clock' = now
    /\ Tick
    /\ UNCHANGED << unwritten_timings, current_timing, last_keep_alive,
                    minimum_timing, running_changed, db, session, keep_alives,
                    accepted, shared, debounce, summary_cache, summary >>

NextColdFill == stored_row \/ cold_get_totals

SpecColdFill == InitColdFill /\ [][NextColdFill]_vars

\* ---------------------------------------------------------------- summaries
\* The daily notes: TimingsRecorder::get_summary and get_summary_if_cached over
\* the summary table.  A row of the table is kept with the UTC date of its start,
\* the day get_summary asks for (it queries with the Utc timezone).

\* get_timings_daily_summaries(Utc, day, day, Some(client), Some(project)).
GetTimingsDailySummaries(table, day, client, project) ==
    {row \in table : row.day = day /\ row.client = client /\ row.project = project}

\* insert_timings_summary of one day's text: an empty text deletes the row, any
\* other text replaces the row of the same project and day.
InsertTimingsSummary(table, day, client, project, text) ==
    LET others == {row \in table :
                      ~(row.day = day /\ row.client = client /\ row.project = project)}
    IN  IF text = <<>>
        THEN others
        ELSE others \cup {[day |-> day, client |-> client, project |-> project,
                           text |-> text]}

\* TimingsRecorder::get_summary_if_cached: a lookup in summary_cache.
GetSummaryIfCached(cache, day, client, project) ==
    IF <<day, client, project>> \in DOMAIN cache
    THEN Some(cache[<<day, client, project>>])
    ELSE None

\* get_summary that remembers the empty text of a day without a row.
GetSummary_CacheEmpty(self, cache, store, table, day, client, project, now, insert_ok, read_ok) ==
    LET key == <<day, client, project>>
        w == WriteTimings(self, store, now, insert_ok)
        rows == GetTimingsDailySummaries(table, day, client, project)
        text == IF rows = {} THEN <<>> ELSE (CHOOSE row \in rows : TRUE).text
    IN  IF key \in DOMAIN cache
        THEN [ self |-> self, cache |-> cache, db |-> store, hit |-> TRUE,
               flushed |-> FALSE, batch |-> <<>>, read |-> FALSE,
               text |-> Some(cache[key]), err |-> FALSE ]
        ELSE IF w.err
        THEN [ self |-> w.self, cache |-> cache, db |-> w.db, hit |-> FALSE,
               flushed |-> TRUE, batch |-> w.batch, read |-> FALSE,
               text |-> None, err |-> TRUE ]
        ELSE IF ~read_ok
        THEN [ self |-> w.self, cache |-> cache, db |-> w.db, hit |-> FALSE,
               flushed |-> TRUE, batch |-> w.batch, read |-> TRUE,
               text |-> None, err |-> TRUE ]
        ELSE [ self |-> w.self,
               cache |-> [k \in (DOMAIN cache) \cup {key} |->
                             IF k = key THEN text ELSE cache[k]],
               db |-> w.db, hit |-> FALSE, flushed |-> TRUE, batch |-> w.batch,
               read |-> TRUE, text |-> Some(text), err |-> FALSE ]

\* TimingsRecorder::get_summary.  insert_ok is the outcome of insert_timings and
\* read_ok the outcome of get_timings_daily_summaries; `flushed` and `read` tell
\* which of the two were called.
GetSummary(self, cache, store, table, day, client, project, now, insert_ok, read_ok) ==
    LET key == <<day, client, project>>
        w == WriteTimings(self, store, now, insert_ok)
        rows == GetTimingsDailySummaries(table, day, client, project)
    IN  IF key \in DOMAIN cache
        THEN [ self |-> self, cache |-> cache, db |-> store, hit |-> TRUE,
               flushed |-> FALSE, batch |-> <<>>, read |-> FALSE,
               text |-> Some(cache[key]), err |-> FALSE ]
        ELSE IF w.err
        THEN [ self |-> w.self, cache |-> cache, db |-> w.db, hit |-> FALSE,
               flushed |-> TRUE, batch |-> w.batch, read |-> FALSE,
               text |-> None, err |-> TRUE ]
        ELSE IF ~read_ok
        THEN [ self |-> w.self, cache |-> cache, db |-> w.db, hit |-> FALSE,
               flushed |-> TRUE, batch |-> w.batch, read |-> TRUE,
               text |-> None, err |-> TRUE ]
        ELSE IF rows # {}
        THEN [ self |-> w.self,
               cache |-> [k \in (DOMAIN cache) \cup {key} |->
                             IF k = key THEN (CHOOSE row \in rows : TRUE).text
                             ELSE cache[k]],
               db |-> w.db, hit |-> FALSE, flushed |-> TRUE, batch |-> w.batch,
               read |-> TRUE, text |-> Some((CHOOSE row \in rows : TRUE).text),
               err |-> FALSE ]
        ELSE [ self |-> w.self, cache |-> cache, db |-> w.db, hit |-> FALSE,
               flushed |-> TRUE, batch |-> w.batch, read |-> TRUE,
               text |-> Some(<<>>), err |-> FALSE ]

\* What a summary operation returned and did to its collaborators: the fields of
\* Out, the text returned, whether the table was read and the day asked for.
SummaryOut(self, flushed, inserted, batch, read, text, err, day) ==
    [ notified   |-> self.notified,
      observed   |-> self.observed,
      cache_adds |-> self.cache_adds,
      started    |-> FALSE,
      flushed    |-> flushed,
      inserted   |-> inserted,
      batch      |-> batch,
      totals     |-> None,
      err        |-> err,
      read       |-> read,
      text       |-> text,
      day        |-> day ]

get_summary ==
    /\ ops < MaxSummaryOps
    /\ \E day \in SummaryDays, pair \in Pairs, now \in Now, fail \in Failures :
        \E res \in {GetSummary(Self, summary_cache, db, summary, day, pair[1], pair[2],
                               now, fail # "insert", fail # "read")} :
            /\ Store(res.self)
            /\ summary_cache' = res.cache
            /\ db' = res.db
            /\ out' = SummaryOut(res.self, res.flushed, res.flushed /\ fail # "insert",
                                 res.batch, res.read, res.text, res.err, day)
            /\ call' = Call("get_summary", pair[1], pair[2], now)
            /\ clock' = now
    /\ session' = SessionAfterFlush
    /\ Tick
    /\ UNCHANGED << keep_alives, accepted, shared, debounce, summary >>

get_summary_if_cached ==
    /\ ops < MaxSummaryOps
    /\ \E day \in SummaryDays, pair \in Pairs :
        /\ out' = SummaryOut(Self, FALSE, FALSE, <<>>, FALSE,
                             GetSummaryIfCached(summary_cache, day, pair[1], pair[2]),
                             FALSE, day)
        /\ call' = Call("get_summary_if_cached", pair[1], pair[2], clock)
    /\ Tick
    /\ UNCHANGED << unwritten_timings, current_timing, last_keep_alive,
                    minimum_timing, totals_cache, running_changed, db, session,
                    keep_alives, accepted, shared, debounce, summary_cache, summary,
                    clock >>

\* The application stores the note of a day (timings-app main.rs calls
\* insert_timings_daily_summaries on the connection, not on the recorder).
insert_timings_daily_summaries ==
    /\ ops < MaxSummaryOps
    /\ \E day \in SummaryDays, pair \in Pairs, text \in SummaryTexts :
        /\ summary' = InsertTimingsSummary(summary, day, pair[1], pair[2], text)
        /\ summary' # summary
        /\ call' = Call("insert_timings_daily_summaries", pair[1], pair[2], clock)
    /\ Tick
    /\ UNCHANGED << unwritten_timings, current_timing, last_keep_alive,
                    minimum_timing, totals_cache, running_changed, db, out,
                    session, keep_alives, accepted, shared, debounce, summary_cache,
                    clock >>

InitSummary == Init /\ minimum_timing = 0

NextSummary ==
    \/ start_timing
    \/ stop_timing
    \/ get_summary
    \/ get_summary_if_cached
    \/ insert_timings_daily_summaries

SpecSummary == InitSummary /\ [][NextSummary]_vars

\* ================================================================= claims
Elems(seq) == {seq[i] : i \in DOMAIN seq}
Duration(timing) == timing.end - timing.start

\* What add_timing keeps of the interval (s, e): it is appended when it lasts at
\* least minimum_timing and at least one whole second.
Piece(c, p, s, e) ==
    IF e - s >= minimum_timing /\ e - s >= MsPerSec THEN <<Timing(c, p, s, e)>> ELSE <<>>

SessionPiece(s, e) == Piece(session.client, session.project, s, e)

\* ---- C1 ----
\* C1: no interval shorter than minimum_timing is in the unwritten buffer, is
\* passed to the totals cache, or is in a batch handed to insert_timings.
C1_MinimumRespected ==
    /\ \A t \in Elems(unwritten_timings) : Duration(t) >= minimum_timing
    /\ \A t \in Elems(out.cache_adds) : Duration(t) >= minimum_timing
    /\ \A t \in Elems(out.batch) : Duration(t) >= minimum_timing

\* A session of a second or more, but shorter than the minimum, was stopped and
\* nothing was kept of it.
C1_Witness ==
    /\ session.state = "stopped"
    /\ session.te - session.ts >= MsPerSec
    /\ session.te - session.ts < minimum_timing
    /\ session.produced = <<>>
    /\ unwritten_timings = <<>>

\* ---- C2 ----
\* Gaps between keep-alive instants are read in whole seconds, as the recorder
\* measures them; the millisecond boundary is the subject of C27.
\* C2 (as claimed): a session started from Idle and stopped by stop_timing, with
\* no two consecutive keep-alive instants more than 60 s apart and te - ts at
\* least minimum_timing, produced exactly the one interval (c, p, ts, te).
C2_OneIntervalPerSession ==
    ( /\ session.state = "stopped"
      /\ session.gaps = 0
      /\ session.te - session.ts >= minimum_timing )
    => session.produced =
        <<Timing(session.client, session.project, session.ts, session.te)>>

\* C2 (amended): the same, for sessions that also last at least one whole second.
C2_OneIntervalPerSessionOfASecond ==
    ( /\ session.state = "stopped"
      /\ session.gaps = 0
      /\ session.te - session.ts >= minimum_timing
      /\ session.te - session.ts >= MsPerSec )
    => session.produced =
        <<Timing(session.client, session.project, session.ts, session.te)>>

\* A stopped session with explicit keep-alives closer than 60 s, kept whole.
C2_Witness ==
    /\ session.state = "stopped"
    /\ session.gaps = 0
    /\ minimum_timing > 0
    /\ NumSeconds(session.te - session.ts) > KeepAliveSecs
    /\ session.produced =
        <<Timing(session.client, session.project, session.ts, session.te)>>

CoversSilence(s, e) ==
    LET marks == {s, e} \cup {k \in keep_alives : s <= k /\ k <= e}
    IN  \E a \in marks, b \in marks :
            /\ NumSeconds(b - a) > KeepAliveSecs
            /\ ~ \E k \in keep_alives : a < k /\ k < b

\* C4: no interval handed to insert_timings covers a span of more than 60 s in
\* which no keep-alive (explicit or implicit) occurred.
C4_NoSilenceRecorded ==
    \A t \in Elems(out.batch) : ~CoversSilence(t.start, t.end)

\* ---- steps of start_timing and stop_timing ----
\* In the formulas below the unprimed variables are the recorder before the call
\* and the primed ones the recorder after it; call' holds the call's arguments.
StartStep == ops' = ops + 1 /\ call'.op = "start_timing"
StopStep == ops' = ops + 1 /\ call'.op = "stop_timing"

\* The trimmed arguments of the call name no pair.
EmptyArgs == Trim(call'.client) = <<>> \/ Trim(call'.project) = <<>>

Recording == IsSome(current_timing)

\* The recorder is Recording the pair the call names.
SamePair ==
    /\ Recording
    /\ Unwrap(current_timing).client = Trim(call'.client)
    /\ Unwrap(current_timing).project = Trim(call'.project)

\* The call comes more than 60 (whole) seconds after the last keep-alive.
LateCall ==
    /\ IsSome(last_keep_alive)
    /\ NumSeconds(call'.now - Unwrap(last_keep_alive)) > KeepAliveSecs

\* What is kept of the open session when it is ended at instant `end`.
CurrentPiece(end) ==
    IF Recording
    THEN Piece(Unwrap(current_timing).client, Unwrap(current_timing).project,
               Unwrap(current_timing).start, end)
    ELSE <<>>

\* ---- C5 ----
\* C5: start_timing returns true exactly when the call created a new
\* CurrentTiming (trimmed client, trimmed project, start = now); it returns false
\* for an empty trimmed name and when already Recording the same pair.
C5_StartReturnsCreated ==
    [][ StartStep =>
          LET created ==
                /\ ~EmptyArgs
                /\ ~SamePair
                /\ current_timing' =
                     Some(CurrentTiming(Trim(call'.client), Trim(call'.project),
                                        call'.now))
          IN  /\ out'.started <=> created
              /\ EmptyArgs => ~out'.started
              /\ SamePair => ~out'.started ]_vars

\* start_timing with untrimmed names returned true, and the new CurrentTiming
\* holds the trimmed names.
C5_Witness ==
    /\ call.op = "start_timing"
    /\ out.started
    /\ call.client # Trim(call.client)
    /\ current_timing =
         Some(CurrentTiming(Trim(call.client), Trim(call.project), call.now))

\* ---- C6 ----
\* C6 (as claimed): start_timing while Recording the same pair, at any now,
\* returns false and leaves CurrentTiming and the unwritten buffer unchanged.
C6_SameStartIsNoOp ==
    [][ (StartStep /\ SamePair) =>
          /\ ~out'.started
          /\ current_timing' = current_timing
          /\ unwritten_timings' = unwritten_timings ]_vars

\* C6 (amended): start_timing while Recording the same pair, at a now no more
\* than 60 s after the last keep-alive, returns false and leaves CurrentTiming
\* and the unwritten buffer unchanged.
C6_TimelySameStartIsNoOp ==
    [][ (StartStep /\ SamePair /\ ~LateCall) =>
          /\ ~out'.started
          /\ current_timing' = current_timing
          /\ unwritten_timings' = unwritten_timings ]_vars

\* A second start_timing of the running pair, later than its start, changed
\* nothing.
C6_Witness ==
    /\ call.op = "start_timing"
    /\ call.running
    /\ ~out.started
    /\ IsSome(current_timing)
    /\ Unwrap(current_timing).client = Trim(call.client)
    /\ Unwrap(current_timing).start < call.now
    /\ out.cache_adds = <<>>

C8_SwitchIsContiguous ==
    [][ (StartStep /\ Recording /\ ~EmptyArgs /\ ~SamePair /\ ~LateCall) =>
          /\ out'.started
          /\ current_timing' =
               Some(CurrentTiming(Trim(call'.client), Trim(call'.project), call'.now))
          /\ unwritten_timings' = unwritten_timings \o CurrentPiece(call'.now) ]_vars

\* A switch kept the old pair's interval, which ends where the new session starts.
C8_Witness ==
    /\ call.op = "start_timing"
    /\ call.running
    /\ out.started
    /\ Len(out.cache_adds) = 1
    /\ out.cache_adds[1].client # Unwrap(current_timing).client
    /\ out.cache_adds[1].end = Unwrap(current_timing).start
    /\ unwritten_timings # <<>>
    /\ unwritten_timings[Len(unwritten_timings)] = out.cache_adds[1]

\* ---- C9 ----
\* C9: stop_timing while Idle leaves the recorder Idle, the unwritten buffer and
\* the totals cache unchanged, and raises no error.
C9_StopWhileIdle ==
    [][ (StopStep /\ ~Recording) =>
          /\ current_timing' = None
          /\ unwritten_timings' = unwritten_timings
          /\ totals_cache' = totals_cache
          /\ ~out'.err ]_vars

\* stop_timing was called while Idle, with intervals waiting in the buffer.
C9_Witness ==
    /\ call.op = "stop_timing"
    /\ ~call.running
    /\ current_timing = None
    /\ unwritten_timings # <<>>

\* ---- C10 ----
\* C10: with a callback registered, an operation that takes the recorder from
\* Idle to Recording invokes it with true, and one that takes it from Recording
\* to Idle invokes it with false, before the operation returns.
C10_TransitionsNotify ==
    [][ running_changed =>
          /\ (~Recording /\ IsSome(current_timing')) => TRUE \in Elems(out'.notified)
          /\ (Recording /\ current_timing' = None) => FALSE \in Elems(out'.notified)
      ]_vars

\* stop_timing ended a running session and the callback was invoked with false.
C10_Witness ==
    /\ running_changed
    /\ call.op = "stop_timing"
    /\ call.running
    /\ current_timing = None
    /\ out.notified = <<FALSE>>

\* ---- steps of write_timings and get_totals ----
WriteStep == ops' = ops + 1 /\ call'.op = "write_timings"
GetTotalsStep == ops' = ops + 1 /\ call'.op = "get_totals"

\* seq is the beginning of the sequence longer.
IsPrefix(seq, longer) ==
    Len(seq) <= Len(longer) /\ SubSeq(longer, 1, Len(seq)) = seq

\* The synthetic interval write_timings builds for the open session at `now`.
Synthetic(now) ==
    Timing(Unwrap(current_timing).client, Unwrap(current_timing).project,
           Unwrap(current_timing).start, now)

\* ---- C11 ----
\* C11: after a successful write_timings the unwritten buffer is empty and the
\* batch handed to insert_timings began with everything the buffer held; an
\* operation that removes anything from the buffer had a successful
\* insert_timings of everything the buffer held.
C11_ClearedOnlyAfterInsert ==
    [][ /\ (WriteStep /\ ~out'.err) =>
              /\ unwritten_timings' = <<>>
              /\ out'.inserted
              /\ IsPrefix(unwritten_timings, out'.batch)
        /\ ~IsPrefix(unwritten_timings, unwritten_timings') =>
              /\ out'.inserted
              /\ IsPrefix(unwritten_timings, out'.batch)
              /\ \A t \in Elems(unwritten_timings) : t \in db' ]_vars

\* write_timings succeeded while Idle with intervals buffered: they are in the
\* store and the buffer is empty.
C11_Witness ==
    /\ call.op = "write_timings"
    /\ ~out.err
    /\ current_timing = None
    /\ out.batch # <<>>
    /\ \A t \in Elems(out.batch) : t \in db
    /\ unwritten_timings = <<>>

C13_SyntheticOnlyInBatch ==
    [][ WriteStep =>
          /\ out'.batch = unwritten_timings \o
                (IF Recording /\ call'.now - Unwrap(current_timing).start >= minimum_timing
                 THEN <<Synthetic(call'.now)>> ELSE <<>>)
          /\ current_timing' = current_timing
          /\ last_keep_alive' = last_keep_alive
          /\ totals_cache' = totals_cache
          /\ out'.cache_adds = <<>>
          /\ accepted' = accepted
          /\ unwritten_timings' = (IF out'.err THEN unwritten_timings ELSE <<>>) ]_vars

\* write_timings flushed only the open session, which is still open.
C13_Witness ==
    /\ call.op = "write_timings"
    /\ ~out.err
    /\ IsSome(current_timing)
    /\ minimum_timing > 0
    /\ out.batch = << Timing(Unwrap(current_timing).client,
                              Unwrap(current_timing).project,
                              Unwrap(current_timing).start, call.now) >>
    /\ out.batch[1] \in db
    /\ unwritten_timings = <<>>

\* ---- C14 ----
\* The rows of the store that carry the key of the open session.
SessionRows(store) ==
    {row \in store : SameKey(row, Unwrap(current_timing))}

OneRowPerKey(store) == \A a \in store, b \in store : SameKey(a, b) => a = b

\* C14 (as claimed): after every successful flush made while a session is open,
\* the store holds exactly one row for that session, ending at the flush's now.
C14_OneRowPerSession ==
    [][ (out'.inserted /\ Recording) =>
          SessionRows(db') = {Synthetic(call'.now)} ]_vars

\* C14 (amended): the store never holds two rows with the same (client, project,
\* start); a successful flush made while a session is open leaves exactly one
\* row for that session, ending at the flush's now, when now - start >=
\* minimum_timing, and otherwise leaves the session without a row; a failed flush
\* leaves the store as it was.
C14_OneRowPerFlushedSession ==
    [][ /\ OneRowPerKey(db')
        /\ (out'.inserted /\ Recording) =>
              SessionRows(db') =
                IF call'.now - Unwrap(current_timing).start >= minimum_timing
                THEN {Synthetic(call'.now)} ELSE {}
        /\ (out'.flushed /\ ~out'.inserted) => db' = db ]_vars

\* A second flush of one open session (the first was a cold get_totals, which
\* cached the row it had just written) moved the end of the session's only row.
C14_Witness ==
    /\ call.op = "write_timings"
    /\ ~out.err
    /\ accepted = <<>>
    /\ IsSome(current_timing)
    /\ LET current == Unwrap(current_timing)
           key == <<current.client, current.project>>
           today == LocalDate(current.start)
       IN  /\ HasCachedTotals(totals_cache, current.client, current.project)
           /\ today \in DOMAIN totals_cache[key]
           /\ totals_cache[key][today] > 0
           /\ totals_cache[key][today] < call.now - current.start
           /\ {row \in db : SameKey(row, current)} =
                  {Timing(current.client, current.project, current.start, call.now)}

\* ---- C15 ----
ZeroTotals == [ today |-> 0, this_week |-> 0, last_week |-> 0, eight_weeks |-> 0 ]

\* The pair the call names has no entry in the totals cache.
ColdPair == ~HasCachedTotals(totals_cache, call'.client, call'.project)

OfPair(timing) == timing.client = call'.client /\ timing.project = call'.project

\* A cold get_totals flushes, reads what the flush left in the store and, on
\* success, installs what it read.
FlushThenFill ==
    /\ out'.flushed
    /\ out'.batch = unwritten_timings \o
          (IF Recording /\ call'.now - Unwrap(current_timing).start >= minimum_timing
           THEN <<Synthetic(call'.now)>> ELSE <<>>)
    /\ out'.inserted => db' = InsertTimings(db, out'.batch)
    /\ ~out'.err =>
          /\ out'.inserted
          /\ HasCachedTotals(totals_cache', call'.client, call'.project)
          /\ totals_cache'[<<call'.client, call'.project>>] =
                FromDatabase(db', call'.client, call'.project, call'.now,
                             EightWeeksDays)

\* C15 (as claimed): get_totals on a cold pair flushes before it reads the eight
\* weeks of daily totals and on success leaves the pair warm; when the store had
\* no row of the pair and no open session of the pair was flushed, the returned
\* totals are all zero.
C15_ColdFillZeroWithoutSession ==
    [][ (GetTotalsStep /\ ColdPair) =>
          /\ FlushThenFill
          /\ ( /\ ~out'.err
               /\ ~ \E row \in db : OfPair(row)
               /\ ~ (Recording /\ OfPair(Unwrap(current_timing))
                               /\ Synthetic(call'.now) \in Elems(out'.batch)) )
             => out'.totals = Some(ZeroTotals) ]_vars

\* C15 (amended): the same, the totals being all zero when the store had no row
\* of the pair and the flush wrote no interval of the pair, neither a buffered
\* one nor the open session's.
C15_ColdFillZeroWithoutRows ==
    [][ (GetTotalsStep /\ ColdPair) =>
          /\ FlushThenFill
          /\ ( /\ ~out'.err
               /\ ~ \E row \in db : OfPair(row)
               /\ ~ \E t \in Elems(out'.batch) : OfPair(t) )
             => out'.totals = Some(ZeroTotals) ]_vars

\* A cold get_totals flushed intervals of other pairs only and returned zero
\* totals for a pair that is warm afterwards.
C15_Witness ==
    /\ call.op = "get_totals"
    /\ out.flushed
    /\ ~out.err
    /\ out.batch # <<>>
    /\ \A t \in Elems(out.batch) : t \in db
    /\ out.totals = Some(ZeroTotals)
    /\ HasCachedTotals(totals_cache, call.client, call.project)
    /\ totals_cache[<<call.client, call.project>>] = <<>>

\* ---- C16 ----
\* The per-day sums of the accepted intervals of one pair.
RECURSIVE AcceptedDaily(_, _, _)
AcceptedDaily(timings, client, project) ==
    IF timings = <<>> THEN <<>>
    ELSE LET t == timings[Len(timings)]
             rest == AcceptedDaily(SubSeq(timings, 1, Len(timings) - 1),
                                   client, project)
         IN  IF t.client = client /\ t.project = project
             THEN InsertTiming(rest, t.start, t.end)
             ELSE rest

\* C16: get_totals for the pair of the open session returns, in today, this_week
\* and eight_weeks, the sums over the accepted intervals of the pair plus
\* now - CurrentTiming.start, and in last_week the sum over the accepted
\* intervals alone.
C16_LiveElapsedOnce ==
    [][ ( /\ GetTotalsStep
          /\ ~out'.err
          /\ Recording
          /\ OfPair(Unwrap(current_timing)) )
        => out'.totals =
             Some(WithCurrentTiming(
                    ToTotals(AcceptedDaily(accepted, call'.client, call'.project),
                             call'.now),
                    Unwrap(current_timing).start, call'.now)) ]_vars

\* ---- C17 ----
\* C17: when the recorder is Idle and a flush has just succeeded, a warm pair's
\* get_totals (the totals of its cached DailyTotals) equals the totals of a
\* cold fill from the store at the same now.
C17_CacheEqualsRebuild ==
    (current_timing = None /\ unwritten_timings = <<>> /\ out.inserted)
    => \A key \in DOMAIN totals_cache :
          ToTotals(totals_cache[key], clock) =
            ToTotals(FromDatabase(db, key[1], key[2], clock, EightWeeksDays), clock)

\* ---- C18 ----
\* The local day of an instant: the day whose 24 hours of local time hold it.
LocalDayOf(t) ==
    CHOOSE d \in (0 - 20) .. 20 :
        d * MsPerDay <= t + LocalOffsetMs /\ t + LocalOffsetMs < (d + 1) * MsPerDay

BucketOf(daily, day) == IF day \in DOMAIN daily THEN daily[day] ELSE 0

\* C18: TotalsCache::add_timing adds the interval's duration to the bucket of
\* the local day of the interval's start, and changes nothing else, when the
\* cache holds an entry for the interval's pair; for a cold pair it changes
\* nothing and the pair stays cold.
C18_AddOnlyToWarmPair ==
    [][ (ops' = ops + 1 /\ call'.op = "cache_add_timing") =>
          LET timing == out'.cache_adds[1]
              key == <<timing.client, timing.project>>
              day == LocalDayOf(timing.start)
          IN  IF key \in DOMAIN totals_cache
              THEN /\ DOMAIN totals_cache' = DOMAIN totals_cache
                   /\ \A k \in DOMAIN totals_cache \ {key} :
                         totals_cache'[k] = totals_cache[k]
                   /\ DOMAIN totals_cache'[key] = DOMAIN totals_cache[key] \cup {day}
                   /\ totals_cache'[key][day] =
                         BucketOf(totals_cache[key], day) + (timing.end - timing.start)
                   /\ \A d \in DOMAIN totals_cache[key] \ {day} :
                         totals_cache'[key][d] = totals_cache[key][d]
              ELSE totals_cache' = totals_cache ]_vars

\* A timing that starts before local midnight and ends after it was added to
\* the warm pair: its whole duration is in the bucket of the day it started.
C18_Witness ==
    /\ call.op = "cache_add_timing"
    /\ <<call.client, call.project>> = WarmPair
    /\ LET timing == out.cache_adds[1]
       IN  /\ LocalDate(timing.start) < LocalDate(timing.end)
           /\ totals_cache[WarmPair][LocalDate(timing.start)] =
                 timing.end - timing.start
           /\ LocalDate(timing.end) \notin DOMAIN totals_cache[WarmPair]

\* ---- C19 ----
\* The sum of the buckets of the days from..to, a day without a bucket adding zero.
RECURSIVE SumRange(_, _, _)
SumRange(daily, from, to) ==
    IF from > to THEN 0
    ELSE BucketOf(daily, from) + SumRange(daily, from + 1, to)

\* The Monday of the week of a day: day 4 (5 January 1970) is a Monday.
MondayOf(day) == CHOOSE m \in (day - 6) .. day : m % 7 = 4

\* C19: to_totals(now), with d the local date of now, returns today = bucket(d),
\* this_week = the buckets from the Monday of d's week through d, last_week =
\* the buckets of the seven days before that Monday, eight_weeks = the buckets
\* from d - 56 through d; a day without a bucket counts as zero.
C19_ToTotalsIsReference ==
    [][ (ops' = ops + 1 /\ call'.op = "to_totals") =>
          LET daily == totals_cache[WarmPair]
              d == LocalDayOf(call'.now)
              monday == MondayOf(d)
          IN  out'.totals =
                Some([ today       |-> BucketOf(daily, d),
                       this_week   |-> SumRange(daily, monday, d),
                       last_week   |-> SumRange(daily, monday - 7, monday - 1),
                       eight_weeks |-> SumRange(daily, d - 56, d) ]) ]_vars

\* to_totals on a Sunday, with buckets on that day, earlier in its week, on the
\* day 56 days before it, and on the day before that one, which is left out.
C19_Witness ==
    /\ call.op = "to_totals"
    /\ LET daily == totals_cache[WarmPair]
           d == LocalDate(call.now)
           totals == Unwrap(out.totals)
       IN  /\ DaysFromMonday(d) = 6
           /\ {d, d - 56, d - 57} \subseteq DOMAIN daily
           /\ totals.today > 0
           /\ totals.this_week > totals.today
           /\ totals.eight_weeks = totals.this_week + daily[d - 56]
           /\ totals.last_week = 0

\* ---- C20 ----
\* C20: every Totals value returned by get_totals has today, this_week,
\* last_week and eight_weeks all non-negative.
C20_TotalsNonNegative ==
    IsSome(out.totals) =>
        /\ Unwrap(out.totals).today >= 0
        /\ Unwrap(out.totals).this_week >= 0
        /\ Unwrap(out.totals).last_week >= 0
        /\ Unwrap(out.totals).eight_weeks >= 0

\* ---- C21 ----
\* The call repeats a get_totals for the pair whose cold fill has just failed.
RetryOfFailedFill ==
    /\ GetTotalsStep
    /\ call.op = "get_totals"
    /\ out.err
    /\ out.inserted
    /\ call'.client = call.client
    /\ call'.project = call.project

\* The totals of what the store holds for the pair the call names (every
\* instant of this specification lies in one local day, inside every window).
PersistedTotals(store) ==
    LET sum == HoursToDuration(SumDurations({row \in store : OfPair(row)}))
    IN  [ today |-> sum, this_week |-> sum, last_week |-> 0, eight_weeks |-> sum ]

\* C21: a get_totals whose cold-fill read fails installs no cache entry, so the
\* pair stays cold; the next get_totals for that pair flushes and reads again
\* and, when persistence succeeds, returns the totals of what the store holds
\* and leaves the pair warm.
C21_FailedFillStaysCold ==
    [][ /\ (GetTotalsStep /\ ColdPair /\ out'.err) =>
              /\ totals_cache' = totals_cache
              /\ ~HasCachedTotals(totals_cache', call'.client, call'.project)
        /\ RetryOfFailedFill =>
              /\ ColdPair
              /\ FlushThenFill
              /\ ~out'.err =>
                    /\ out'.totals = Some(PersistedTotals(db'))
                    /\ \A t \in Elems(unwritten_timings) : t \in db'
                    /\ HasCachedTotals(totals_cache', call'.client, call'.project)
      ]_vars

\* A cold get_totals flushed an interval of its pair, failed in the read and left
\* the pair cold.
C21_Witness ==
    /\ call.op = "get_totals"
    /\ out.err
    /\ out.inserted
    /\ \E t \in Elems(out.batch) :
          t.client = call.client /\ t.project = call.project /\ t \in db
    /\ ~HasCachedTotals(totals_cache, call.client, call.project)

\* ---- C22 ----
\* C22: an interval in the unwritten buffer stays there until a batch that
\* contains it has been inserted successfully; and with the flush invoked again
\* and again and persistence succeeding, a time comes from which every accepted
\* interval is in the store.
C22_NoIntervalLost ==
    /\ [][ \A t \in Elems(unwritten_timings) :
              \/ t \in Elems(unwritten_timings')
              \/ (out'.inserted /\ t \in Elems(out'.batch) /\ t \in db') ]_vars
    /\ <>[](\A t \in Elems(accepted) : t \in db /\ t \notin Elems(unwritten_timings))

\* A flush failed with an accepted interval in the buffer, which is still there
\* and not yet in the store.
C22_Witness ==
    /\ call.op = "write_timings"
    /\ out.err
    /\ accepted # <<>>
    /\ unwritten_timings = accepted
    /\ \A t \in Elems(accepted) : t \notin db

\* ------------------------------------------------- cancellation, exclusion

\* The step drops the future of a write_timings suspended in insert_timings.
CancelStep == shared.guard # 0 /\ shared'.event = "cancel" /\ shared' # shared

\* The step finishes a write_timings whose batch insert_timings has committed.
ResumeOkStep ==
    /\ shared.guard # 0
    /\ shared.pc[shared.guard] = "committed"
    /\ shared'.event = "resume"
    /\ shared'.guard = 0

\* The store holds the interval, or the row the same batch wrote over it under
\* the same (project, start).
PersistedBy(t, batch, store) ==
    \E r \in store : SameKey(r, t) /\ (r = t \/ r \in Elems(batch))

\* C23: when the future of a write_timings is dropped while it is suspended in
\* insert_timings, before or after the batch was committed, the buffer still
\* holds every interval it held when the call began, in the same order, and
\* dropping the future changes neither the open session nor the store; a
\* write_timings that completes afterwards leaves every interval of its buffer
\* in the store, and the store keeps one row per (project, start).
C23_CancelKeepsBuffer ==
    /\ [][CancelStep =>
            /\ unwritten_timings' = shared.snapshot
            /\ current_timing' = current_timing
            /\ db' = db]_vars
    /\ [][ResumeOkStep =>
            /\ \A t \in Elems(shared.snapshot) : PersistedBy(t, shared.batch, db')
            /\ OneRowPerKey(db')]_vars

\* A write_timings was cancelled after its batch had been committed, the buffer
\* kept its intervals, and a second write_timings has completed: the store
\* holds each interval once.
C23_Witness ==
    /\ shared.cancels = 1
    /\ shared.event = "resume"
    /\ out.inserted
    /\ unwritten_timings = <<>>
    /\ Len(accepted) = 1
    /\ Cardinality(db) = 1
    /\ \A t \in Elems(accepted) : t \in db

\* The step runs a whole call under the guard: made by a ready caller that
\* found the mutex free, or by a blocked caller that got the mutex.
LockedCallStep ==
    /\ shared'.event \in {"call", "acquire"}
    /\ ops' # ops \/ shared' # shared

\* The fields of the recorder.
Fields(self) ==
    << self.unwritten_timings, self.current_timing, self.last_keep_alive,
       self.minimum_timing, self.totals_cache, self.running_changed >>

\* C24: with two callers on one TimingsRecorderShared, calls do not interleave.
\* While one call holds the guard across its await, no other call touches the
\* recorder and the guard does not change hands; the only change is made by the
\* holder when it resumes, and the buffer it clears is the buffer it snapshotted.
\* Every synchronous call runs as a whole on the state the previous call left,
\* with the guard free before and after.  Every interval the recorder accepted
\* is in the buffer or has its row in the store.
C24_CallsNeverInterleave ==
    /\ [][shared.guard # 0 =>
            /\ shared'.guard \in {0, shared.guard}
            /\ current_timing' = current_timing
            /\ last_keep_alive' = last_keep_alive
            /\ accepted' = accepted
            /\ \/ /\ unwritten_timings' = unwritten_timings
                  /\ totals_cache' = totals_cache
               \/ /\ shared'.event = "resume"
                  /\ shared'.guard = 0
                  /\ unwritten_timings = shared.snapshot]_vars
    /\ [][(LockedCallStep /\ call'.op \in {"start_timing", "stop_timing",
                                            "keep_alive_timing"}) =>
            /\ shared.guard = 0
            /\ shared'.guard = 0
            /\ Fields(Self') =
                   Fields(SyncResult(Self, call'.op, call'.client, call'.project,
                                     call'.now).self)]_vars
    /\ [](\A t \in Elems(accepted) :
            \/ t \in Elems(unwritten_timings)
            \/ \E r \in db : SameKey(r, t))

\* Caller 1 is suspended in write_timings with the open session in its batch,
\* caller 2 calls stop_timing and waits; once write_timings has resumed,
\* stop_timing runs and its interval is in the buffer, after the flush.
C24_Witness ==
    /\ shared.event = "acquire"
    /\ call.op = "stop_timing"
    /\ Len(accepted) = 1
    /\ unwritten_timings = accepted
    /\ Cardinality(db) = 1
    /\ \A r \in db : r.end < accepted[1].end

\* C25: while a write_timings or get_totals is suspended in the persistence
\* call, no caller of start_timing, stop_timing or keep_alive_timing (or of any
\* other method) is waiting for the recorder's mutex.
C25_NoCallWaitsForPersistence ==
    \A c \in Callers :
        ~ /\ shared.pc[c] = "blocked"
          /\ shared.guard # 0
          /\ shared.pc[shared.guard] \in {"inserting", "committed", "failed"}

\* --------------------------------------------------------------- debouncing

\* The next call with the id of task k, if any.
NextOfId(k) ==
    {j \in DOMAIN debounce.tasks :
        /\ j > k
        /\ debounce.tasks[j].id = debounce.tasks[k].id
        /\ \A i \in DOMAIN debounce.tasks :
              (k < i /\ i < j) => debounce.tasks[i].id # debounce.tasks[k].id}

\* The next call with the id of task k was made before the delay of k elapsed.
Superseded(k) ==
    \E j \in NextOfId(k) : debounce.tasks[j].called < debounce.tasks[k].deadline

\* C26: a callback whose id is used again before its delay has elapsed never
\* runs; a callback runs at most once and not before its delay; a task is only
\* ever aborted by a later call with its own id; and the callback of the last
\* call of each id eventually has run exactly once.
C26_OnlyLastCallbackRuns ==
    /\ [](\A k \in DOMAIN debounce.tasks :
            LET task == debounce.tasks[k]
            IN  /\ task.runs <= 1
                /\ task.runs = 1 => task.ran_at >= task.deadline
                /\ Superseded(k) => task.runs = 0
                /\ task.state = "aborted" => NextOfId(k) # {})
    /\ <>[](\A k \in DOMAIN debounce.tasks :
            NextOfId(k) = {} => debounce.tasks[k].runs = 1)

\* Id "a" is used twice within the first delay with id "b" used in between:
\* the first callback of "a" was aborted, the second one and that of "b" ran.
C26_Witness ==
    /\ Len(debounce.tasks) = 3
    /\ debounce.tasks[1].id = "a" /\ debounce.tasks[2].id = "b"
    /\ debounce.tasks[3].id = "a"
    /\ debounce.tasks[3].called > debounce.tasks[1].called
    /\ debounce.tasks[3].called < debounce.tasks[1].deadline
    /\ debounce.tasks[1].state = "aborted" /\ debounce.tasks[1].runs = 0
    /\ debounce.tasks[2].runs = 1
    /\ debounce.tasks[3].runs = 1

\* ------------------------------------------------------ keep-alive, callback

KeepAliveStep == ops' = ops + 1 /\ call'.op = "keep_alive_timing"

\* C27: keep_alive_timing(now) while Recording moves the start of the open
\* session to now (a split) exactly when now - last_keep_alive is more than
\* 60 000 ms.
C27_SplitsIffOverSixtySeconds ==
    [][(KeepAliveStep /\ Recording /\ IsSome(last_keep_alive)) =>
         ((current_timing' # current_timing) <=>
          (call'.now - Unwrap(last_keep_alive) > KeepAliveSecs * MsPerSec))]_vars

\* C28: keep_alive_timing(now) leaves last_keep_alive = now in every state,
\* Idle or Recording, split or not; and a start_timing issued while Idle adds
\* nothing to the unwritten buffer or to the totals cache and opens its session
\* at now, whatever the age of the previous keep-alive.
C28_KeepAliveAlwaysRecorded ==
    /\ [][KeepAliveStep => last_keep_alive' = Some(call'.now)]_vars
    /\ [][(StartStep /\ ~Recording) =>
            /\ unwritten_timings' = unwritten_timings
            /\ accepted' = accepted
            /\ out'.cache_adds = <<>>
            /\ last_keep_alive' = Some(call'.now)
            /\ IsSome(current_timing') => Unwrap(current_timing').start = call'.now]_vars

\* A keep-alive arrived while Idle, and more than 60 s later a session was
\* started from Idle: nothing was split off.
C28_Witness ==
    /\ call.op = "start_timing"
    /\ ~call.running
    /\ out.started
    /\ keep_alives \ {call.now} # {}
    /\ \A k \in keep_alives \ {call.now} :
          NumSeconds(call.now - k) > KeepAliveSecs
    /\ unwritten_timings = <<>>
    /\ accepted = <<>>
    /\ last_keep_alive = Some(call.now)

\* C29: every interval in the unwritten buffer, and every interval of a batch
\* handed to insert_timings, ends strictly after it starts.
C29_EveryIntervalPositive ==
    \A t \in Elems(unwritten_timings) \cup Elems(out.batch) : t.end > t.start

\* C30 as claimed: the callback is invoked only by an operation that changes
\* the recorder between Idle and Recording.
C30_NotifiedOnlyOnChange ==
    [][out'.notified # <<>> => (Recording # IsSome(current_timing'))]_vars

\* C30: with a callback registered, stop_timing and start_timing with an empty
\* client or project invoke it once with false, whether or not a session was
\* open; start_timing invokes it once with true when it opens a session, also
\* when it replaces the session of another pair, and not at all when the pair
\* is the open one; no other operation invokes it.  The argument is always
\* is_running() as the operation leaves it.
C30_NotifiedPerCall ==
    [][(running_changed /\ ops' = ops + 1) =>
         /\ out'.notified =
               IF StopStep \/ (StartStep /\ EmptyArgs) THEN <<FALSE>>
               ELSE IF StartStep /\ out'.started THEN <<TRUE>>
               ELSE <<>>
         /\ \A i \in DOMAIN out'.notified :
               out'.notified[i] = IsSome(current_timing')]_vars

\* stop_timing was called while Idle with a callback registered, and the
\* callback was invoked with false.
C30_Witness ==
    /\ running_changed
    /\ call.op = "stop_timing"
    /\ ~call.running
    /\ current_timing = None
    /\ out.notified = <<FALSE>>

\* ------------------------------------------------------------ warm and cold

\* C31: get_totals of a pair the cache holds calls neither insert_timings nor
\* the daily-totals query (it succeeds whatever persistence would answer) and
\* leaves the store, the unwritten buffer, the open session and the cache as
\* they were; get_totals of a pair the cache does not hold calls insert_timings.
C31_WarmTouchesNothing ==
    [][GetTotalsStep =>
         IF ColdPair
         THEN out'.flushed
         ELSE /\ ~out'.flushed
              /\ out'.batch = <<>>
              /\ ~out'.err
              /\ IsSome(out'.totals)
              /\ db' = db
              /\ unwritten_timings' = unwritten_timings
              /\ current_timing' = current_timing
              /\ last_keep_alive' = last_keep_alive
              /\ totals_cache' = totals_cache]_vars

\* get_totals of a warm pair, with an interval waiting in the buffer and a
\* session open: it answered and the buffer was not flushed.
C31_Witness ==
    /\ call.op = "get_totals"
    /\ call.running
    /\ unwritten_timings # <<>>
    /\ ~out.flushed
    /\ IsSome(out.totals)
    /\ \A t \in Elems(unwritten_timings) : t \notin db

\* The stored rows of the pair whose local start day lies in the eight weeks
\* that end with the local day of now.
RowsOfEightWeeks(client, project, now) ==
    {row \in db : /\ row.client = client
                  /\ row.project = project
                  /\ StoredLocalDate(row) >= LocalDate(now) - EightWeeksDays
                  /\ StoredLocalDate(row) <= LocalDate(now)}

C33_EntriesNeverEvicted ==
    [][/\ DOMAIN totals_cache \subseteq DOMAIN totals_cache'
       /\ DOMAIN totals_cache' # DOMAIN totals_cache =>
            /\ GetTotalsStep
            /\ ColdPair
            /\ out'.inserted
            /\ ~out'.err
            /\ DOMAIN totals_cache' =
                  DOMAIN totals_cache \cup {<<call'.client, call'.project>>}]_vars

\* One pair is warm; a session of another pair has been finalized and passed to
\* TotalsCache::add_timing, and the cache still holds the warm pair only.
C33_Witness ==
    /\ Cardinality(DOMAIN totals_cache) = 1
    /\ call.op \in {"stop_timing", "start_timing"}
    /\ out.cache_adds # <<>>
    /\ <<out.cache_adds[1].client, out.cache_adds[1].project>> \notin DOMAIN totals_cache

GetSummaryStep == ops' = ops + 1 /\ call'.op = "get_summary"
GetSummaryIfCachedStep == ops' = ops + 1 /\ call'.op = "get_summary_if_cached"

\* The key of the summary call just made, and the rows the table held for it.
SummaryKey == <<out'.day, call'.client, call'.project>>
SummaryRows == GetTimingsDailySummaries(summary, out'.day, call'.client, call'.project)

\* C34: get_summary is a read-through cache.  On a hit it returns the cached
\* text and neither flushes nor reads.  On a miss it flushes first and reads only
\* after the flush succeeded; when the read returns a row its text is returned
\* and cached, when it returns none the empty text is returned and nothing is
\* cached.  get_summary_if_cached returns what the cache holds and touches
\* neither persistence nor the recorder.
C34_SummaryReadThrough ==
    [][/\ GetSummaryStep =>
            IF SummaryKey \in DOMAIN summary_cache
            THEN /\ out'.text = Some(summary_cache[SummaryKey])
                 /\ ~out'.flushed /\ ~out'.read /\ ~out'.err
                 /\ db' = db
                 /\ unwritten_timings' = unwritten_timings
                 /\ summary_cache' = summary_cache
            ELSE /\ out'.flushed
                 /\ out'.read => out'.inserted
                 /\ out'.err => summary_cache' = summary_cache /\ out'.text = None
                 /\ ~out'.err =>
                        /\ out'.read
                        /\ IF SummaryRows # {}
                           THEN /\ \E row \in SummaryRows : out'.text = Some(row.text)
                                /\ DOMAIN summary_cache' =
                                       DOMAIN summary_cache \cup {SummaryKey}
                                /\ Some(summary_cache'[SummaryKey]) = out'.text
                                /\ \A k \in DOMAIN summary_cache :
                                       summary_cache'[k] = summary_cache[k]
                           ELSE /\ out'.text = Some(<<>>)
                                /\ summary_cache' = summary_cache
       /\ GetSummaryIfCachedStep =>
            /\ out'.text = IF SummaryKey \in DOMAIN summary_cache
                           THEN Some(summary_cache[SummaryKey]) ELSE None
            /\ ~out'.flushed /\ ~out'.read
            /\ db' = db
            /\ unwritten_timings' = unwritten_timings
            /\ summary_cache' = summary_cache]_vars

\* A hit while a session is open: the cached text comes back, nothing is flushed
\* or read, and a day without a row is still not in the cache.
C34_Witness ==
    /\ call.op = "get_summary"
    /\ call.running
    /\ ~out.flushed /\ ~out.read
    /\ IsSome(out.text)
    /\ <<out.day, call.client, call.project>> \in DOMAIN summary_cache
    /\ \E k \in DOMAIN summary_cache : Unwrap(out.text) = summary_cache[k]
    /\ db = {}

\* ------------------------------------------------------ callback argument

\* C35: every running_changed invocation is given the value is_running() has
\* when the callback is called: true only while a CurrentTiming exists, false
\* only while none exists.
C35_ArgumentIsRunning ==
    /\ Len(out.observed) = Len(out.notified)
    /\ \A i \in DOMAIN out.notified : out.notified[i] = out.observed[i]

\* start_timing of another pair replaced an open session: the callback was
\* called with true although the recorder was running before and after.
C35_Witness ==
    /\ call.op = "start_timing"
    /\ call.running
    /\ out.started
    /\ out.notified = <<TRUE>>
    /\ out.observed = <<TRUE>>
    /\ IsSome(current_timing)

\* ------------------------------------------------------ accepted intervals

\* The durations of the timings of a sequence, added up.
RECURSIVE SumAccepted(_)
SumAccepted(seq) ==
    IF seq = <<>> THEN 0 ELSE Duration(Head(seq)) + SumAccepted(Tail(seq))

\* C36: with now never decreasing, every interval accepted into the unwritten
\* buffer starts at or after the end of the one accepted before it, and the
\* accepted durations add up to no more than the time between the first
\* accepted start and the latest now.
C36_AcceptedInOrder ==
    /\ \A i \in 1 .. Len(accepted) - 1 : accepted[i + 1].start >= accepted[i].end
    /\ accepted # <<>> => SumAccepted(accepted) <= clock - accepted[1].start

\* A gap split and a later stop each appended an interval of one session: the
\* second begins where the keep-alive after the gap was given, after the end of
\* the first.
C36_Witness ==
    /\ Len(accepted) >= 2
    /\ accepted[2].client = accepted[1].client
    /\ accepted[2].project = accepted[1].project
    /\ accepted[2].start > accepted[1].end
    /\ call.op = "stop_timing"

\* ------------------------------------------------ the last keep-alive

\* C37: with now never decreasing, whenever a session is open the last
\* keep-alive instant is set and is not before the start of the session, so the
\* interval (start, last keep-alive) of a gap split does not end before it
\* starts.
C37_KeepAliveNotBeforeStart ==
    Recording =>
        /\ IsSome(last_keep_alive)
        /\ Unwrap(last_keep_alive) >= Unwrap(current_timing).start

\* A gap split just appended (start, last keep-alive) with the keep-alive after
\* the start, and the session goes on from the instant of the call.
C37_Witness ==
    /\ call.op = "keep_alive_timing"
    /\ Recording
    /\ out.cache_adds # <<>>
    /\ out.cache_adds[1].end > out.cache_adds[1].start
    /\ Unwrap(current_timing).start = call.now
    /\ last_keep_alive = Some(call.now)

\* ------------------------------------------------ persisted and accepted

\* C38: once the recorder is Idle and write_timings has succeeded, the rows in
\* the timing table are exactly the intervals that were accepted into the
\* unwritten buffer: no row is left of an open session that was flushed and
\* whose interval was later discarded or cut back.
C38_PersistedAreAccepted ==
    (call.op = "write_timings" /\ ~out.err /\ ~Recording) => db = Elems(accepted)

\* ------------------------------------------------ totals across a stop

\* get_totals of the pair of the open session at the instant of the call just
\* made, asked of the recorder before the call and of the recorder after it.
TotalsBeforeCall ==
    GetTotals(Self, db, Unwrap(current_timing).client, Unwrap(current_timing).project,
              call'.now, TRUE, TRUE).totals
TotalsAfterCall ==
    GetTotals(Self', db', Unwrap(current_timing).client, Unwrap(current_timing).project,
              call'.now, TRUE, TRUE).totals

\* C39: stop_timing(t) does not change the totals of a warm pair whose open
\* session has lasted at least minimum_timing: get_totals(c, p, t) returns the
\* same today, this_week, last_week and eight_weeks right before and right
\* after the stop.
C39_StopKeepsTotals ==
    [][(/\ StopStep
        /\ Recording
        /\ HasCachedTotals(totals_cache, Unwrap(current_timing).client,
                           Unwrap(current_timing).project)
        /\ call'.now - Unwrap(current_timing).start >= minimum_timing)
       => TotalsAfterCall = TotalsBeforeCall]_vars

\* ------------------------------------------------ the order of the totals

\* C40: every Totals value get_totals returns, for day buckets that are not
\* negative and an open session that did not start after now, has
\* today <= this_week <= eight_weeks and this_week + last_week <= eight_weeks.
C40_TotalsOrdered ==
    IsSome(out.totals) =>
        /\ Unwrap(out.totals).today <= Unwrap(out.totals).this_week
        /\ Unwrap(out.totals).this_week <= Unwrap(out.totals).eight_weeks
        /\ Unwrap(out.totals).this_week + Unwrap(out.totals).last_week
              <= Unwrap(out.totals).eight_weeks

\* Totals returned with an open session, with time in this week before today,
\* in the week before and in the six weeks before that.
C40_Witness ==
    /\ call.op = "cache_get_totals"
    /\ call.running
    /\ IsSome(out.totals)
    /\ 0 < Unwrap(out.totals).today
    /\ Unwrap(out.totals).today < Unwrap(out.totals).this_week
    /\ 0 < Unwrap(out.totals).last_week
    /\ Unwrap(out.totals).this_week + Unwrap(out.totals).last_week
          < Unwrap(out.totals).eight_weeks

====
